---- MODULE Spec2Model ----
(***************************************************************************)
(* A model of the RTL transformation engine of ppt-translator:             *)
(*   - mirror_x and RTLVisualEngine (src/translator/visual_engine.py),     *)
(*   - ContentProcessor extraction / injection                             *)
(*     (src/translator/content_processor.py),                              *)
(*   - the per-part pipeline of SlideTranslator (main.py).                 *)
(*                                                                         *)
(* An XML part is a sequence of shape nodes (the children of p:spTree, in  *)
(* document order); a p:grpSp node owns the sequence of its children.      *)
(* Optional XML elements are BOOLEAN presence fields or sequences of       *)
(* length 0 or 1, text is a sequence of one-character strings.             *)
(***************************************************************************)
EXTENDS Integers, Sequences, FiniteSets, TLC

VARIABLES
    mx,               \* arguments of a mirror_x call: [x, width, space_width, space_offset]
    mout,             \* results of the successive mirror_x applications on mx
    pres_xml,         \* presentation.xml: the cx of p:sldSz, <<>> when p:sldSz is absent
    flip_connectors,  \* RTLVisualEngine.flip_connectors
    kind,             \* the part being processed: "slide", "master" or "layout"
    slide_xml,        \* the extracted part XML (never rewritten)
    content_json,     \* the records extract_content_for_llm produced
    translated_json,  \* the records the translator returned
    rtl_xml,          \* the file engine.save() wrote
    final_xml,        \* the file inject_translated_content wrote
    pc,               \* position of the part's pipeline
    stats,            \* the statistics engine.transform() returned: [errors]
    job,              \* a translate_slides run: [parts, next, replacements, status]
    chart,            \* a chart part: [xml, content, translated, first, final, runs]
    translator,       \* the --translator option: "openai", "anthropic" or "mock"
    work_dir,         \* the files of SlideTranslator.work_dir, by name
    session,          \* a SlideTranslator and its translate_slides calls
    pipelines         \* the pipelines of two parts: position and local variables

vars == <<mx, mout, pres_xml, flip_connectors, kind, slide_xml, content_json,
          translated_json, rtl_xml, final_xml, pc, stats, job, chart,
          translator, work_dir, session, pipelines>>

sessionVars == <<work_dir, session, pipelines>>

pipeVarsOfPart == <<pres_xml, flip_connectors, kind, slide_xml, content_json,
                    translated_json, rtl_xml, final_xml, pc, stats>>

pipeVars == <<pres_xml, flip_connectors, kind, slide_xml, content_json,
              translated_json, rtl_xml, final_xml, pc, stats, job>>

-----------------------------------------------------------------------------
(* Bounds of the model *)

\* mirror_x is tried on x, width, offset in 0..MaxCoord units of 500,000 EMU
MaxCoord == 3
\* number of successive mirror_x applications recorded in mout
MaxMirrorRuns == 2
\* nesting depth of the groups in the engine's input trees
MaxDepth == 2
\* number of paragraphs of a text body in the pipeline's input trees
MaxParas == 3
\* number of paragraphs of a translated record
MaxNewParas == 3
\* number of slides requested in a translate_slides run
MaxSlides == 2
\* number of rows of a table in the engine's input trees
MaxRows == 2
\* number of times inject_chart_text is run on a chart, each time on its output
MaxChartRuns == 3
\* number of translate_slides calls on one SlideTranslator
MaxCalls == 2

-----------------------------------------------------------------------------
(* Geometry helpers: visual_engine.py *)

\* RTLVisualEngine.DEFAULT_SLIDE_WIDTH
DEFAULT_SLIDE_WIDTH == 12192000

\* mirror_x with the space offset ignored
mirror_x_no_offset(x, width, space_width, space_offset) ==
    space_width - (x + width)

\* mirror_x with the operands of the inner subtraction swapped: a translation
mirror_x_sign_slip(x, width, space_width, space_offset) ==
    LET relative_x == x - space_offset
        new_relative_x == space_width - (width - relative_x)
    IN  space_offset + new_relative_x

\* mirror_x(x, width, space_width, space_offset)
mirror_x(x, width, space_width, space_offset) ==
    LET relative_x == x - space_offset
        new_relative_x == space_width - (relative_x + width)
    IN  space_offset + new_relative_x

-----------------------------------------------------------------------------
(* Text and names.  A string is a sequence of one-character strings; "NL"  *)
(* stands for the newline character.                                       *)

IsSpace(c) == c \in {" ", "NL"}

\* str.strip(): leading and trailing whitespace removed
RECURSIVE lstrip(_)
lstrip(s) == IF s # <<>> /\ IsSpace(Head(s)) THEN lstrip(Tail(s)) ELSE s

RECURSIVE rstrip(_)
rstrip(s) ==
    IF s # <<>> /\ IsSpace(s[Len(s)]) THEN rstrip(SubSeq(s, 1, Len(s) - 1)) ELSE s

strip(s) == rstrip(lstrip(s))

\* str.lower() on the letters the model's names use
LowerChar(c) ==
    CASE c = "L" -> "l"
      [] c = "I" -> "i"
      [] c = "C" -> "c"
      [] c = "T" -> "t"
      [] c = "A" -> "a"
      [] c = "B" -> "b"
      [] OTHER -> c

lower(s) == [i \in 1..Len(s) |-> LowerChar(s[i])]

\* Python's `sub in s` on strings
Contains(s, sub) ==
    \E i \in 0..(Len(s) - Len(sub)) : SubSeq(s, i + 1, i + Len(sub)) = sub

\* RTLVisualEngine.LOGO_KEYWORDS
LOGO_KEYWORDS ==
    { <<"l","o","g","o">>,
      <<"w","a","t","e","r","m","a","r","k">>,
      <<"b","r","a","n","d">>,
      <<"t","r","a","d","e","m","a","r","k">>,
      <<"i","c","o","n">>,
      <<"e","m","b","l","e","m">>,
      <<"b","a","d","g","e">>,
      <<"s","e","a","l">>,
      <<"c","o","p","y","r","i","g","h","t">> }

\* RTLVisualEngine.ARROW_GEOMETRIES
ARROW_GEOMETRIES ==
    { "chevron", "homePlate", "leftArrow", "rightArrow", "stripedRightArrow",
      "bentArrow", "curvedRightArrow", "curvedLeftArrow", "notchedRightArrow",
      "leftRightArrow", "flowChartOffpageConnector" }

-----------------------------------------------------------------------------
(* The engine: RTLVisualEngine.  `self` is the record                      *)
(* [slide_width, flip_threshold, flip_connectors] that __init__ builds.    *)
(* A node `element` is a record                                            *)
(*   kind       "sp", "pic", "cxnSp", "grpSp" or "graphicFrame"            *)
(*   id, name   the id and name attributes of its cNvPr                    *)
(*   ph         the type of its p:ph placeholder, "none" without one       *)
(*   xfrm       TRUE iff its transform has both a:off and a:ext            *)
(*   x, y, cx, cy   the attributes of a:off and a:ext                      *)
(*   flipH      "none" (no attribute), "0" or "1"                          *)
(*   prst       the preset geometry, "none" without a:prstGeom             *)
(*   chOffDecl, chExtDecl, chOff, chExt   a group's a:chOff and a:chExt    *)
(*   txBody     <<>> or <<body>>, body = [rtlCol, paras]                   *)
(*   uri        the kind of a graphic frame's a:graphicData                *)
(*   children   the child nodes of a group                                 *)
(*   bad        the attribute whose value is not an integer: "x" or "y" of  *)
(*              a:off, "chOff" (the x of a:chOff), "none" when all parse    *)
(* A paragraph is [pPr, algn, rtl, lvl, defLang, items]; an item is a run  *)
(* or a field: [tag, rPr, lang, b, fmt, latin, cs, hasT, t].               *)

\* RTLVisualEngine._extract_slide_width
extract_slide_width(pres) ==
    IF pres # <<>> THEN pres[1] ELSE DEFAULT_SLIDE_WIDTH

\* RTLVisualEngine.__init__: slide_width, flip_threshold = int(slide_width * 0.4)
engine_init(pres, flipc) ==
    LET slide_width == extract_slide_width(pres)
    IN  [slide_width |-> slide_width,
         flip_threshold |-> (slide_width * 4) \div 10,
         flip_connectors |-> flipc]

\* BoundingBox.right_edge
right_edge(bbox) == bbox.x + bbox.cx

\* BoundingBox.aspect_ratio > 1.5, the ratio being 0 when height <= 0
aspect_ratio_gt_3_2(bbox) == bbox.cy > 0 /\ 2 * bbox.cx > 3 * bbox.cy

\* 0.5 <= BoundingBox.aspect_ratio <= 2.0
aspect_ratio_in_half_two(bbox) ==
    IF bbox.cy > 0
    THEN bbox.cy <= 2 * bbox.cx /\ bbox.cx <= 2 * bbox.cy
    ELSE FALSE

\* the a:t texts below a text body (.//a:t): those of runs and of fields
body_texts(body) ==
    UNION { { body.paras[i].items[j].t :
                j \in { k \in 1..Len(body.paras[i].items) : body.paras[i].items[k].hasT } } :
            i \in 1..Len(body.paras) }

\* _should_flip_shape, lines 771-779: the shape has actual text content
has_text(element) ==
    /\ element.txBody # <<>>
    /\ \E t \in body_texts(element.txBody[1]) : t # <<>> /\ strip(t) # <<>>

\* _is_likely_logo with the left margin closed: bbox.x <= margin
is_likely_logo_closed_left(self, element, name, bbox) ==
    LET name_lower == lower(name)
        is_picture == element.kind = "pic"
        is_small == 20 * bbox.cx < 3 * self.slide_width
        in_left_margin == 10 * bbox.x <= self.slide_width
        in_right_margin == 10 * right_edge(bbox) > 9 * self.slide_width
        in_corner == in_left_margin \/ in_right_margin
        is_squarish == IF bbox.cy > 0 THEN aspect_ratio_in_half_two(bbox) ELSE TRUE
    IN  IF \E keyword \in LOGO_KEYWORDS : Contains(name_lower, keyword)
        THEN TRUE
        ELSE IF is_picture /\ is_small /\ in_corner
             THEN TRUE
             ELSE is_small /\ in_corner /\ is_squarish

\* RTLVisualEngine._is_likely_logo
is_likely_logo(self, element, name, bbox) ==
    LET name_lower == lower(name)
        is_picture == element.kind = "pic"
        is_small == 20 * bbox.cx < 3 * self.slide_width
        in_left_margin == 10 * bbox.x < self.slide_width
        in_right_margin == 10 * right_edge(bbox) > 9 * self.slide_width
        in_corner == in_left_margin \/ in_right_margin
        is_squarish == IF bbox.cy > 0 THEN aspect_ratio_in_half_two(bbox) ELSE TRUE
    IN  IF \E keyword \in LOGO_KEYWORDS : Contains(name_lower, keyword)
        THEN TRUE
        ELSE IF is_picture /\ is_small /\ in_corner
             THEN TRUE
             ELSE is_small /\ in_corner /\ is_squarish

\* _should_flip_shape without the text-content guard of lines 771-779
should_flip_shape_no_text_guard(self, element, bbox, name) ==
    IF is_likely_logo(self, element, name, bbox)
    THEN FALSE
    ELSE IF element.prst \in ARROW_GEOMETRIES
         THEN TRUE
         ELSE bbox.cx >= self.flip_threshold /\ aspect_ratio_gt_3_2(bbox)

\* _should_flip_shape testing the arrow geometry before the logo heuristic
should_flip_shape_arrow_first(self, element, bbox, name) ==
    IF has_text(element)
    THEN FALSE
    ELSE IF element.prst \in ARROW_GEOMETRIES
         THEN TRUE
         ELSE IF is_likely_logo(self, element, name, bbox)
              THEN FALSE
              ELSE bbox.cx >= self.flip_threshold /\ aspect_ratio_gt_3_2(bbox)

\* RTLVisualEngine._should_flip_shape
should_flip_shape(self, element, bbox, name) ==
    IF has_text(element)
    THEN FALSE
    ELSE IF is_likely_logo(self, element, name, bbox)
         THEN FALSE
         ELSE IF element.prst \in ARROW_GEOMETRIES
              THEN TRUE
              ELSE LET is_very_wide == bbox.cx >= self.flip_threshold
                       is_wide_aspect == aspect_ratio_gt_3_2(bbox)
                   IN  is_very_wide /\ is_wide_aspect

\* the typeface lowered, on the typefaces the model uses (str.lower())
typeface_lower(f) ==
    CASE f = "Simplified Arabic" -> "simplified arabic"
      [] f = "Traditional Arabic" -> "traditional arabic"
      [] f = "Arabic Typesetting" -> "arabic typesetting"
      [] f = "Arial" -> "arial"
      [] f = "ARIAL" -> "arial"
      [] f = "Calibri" -> "calibri"
      [] OTHER -> f

\* _process_run, line 674: arabic_fonts, lowered as line 677 does
arabic_fonts_lower ==
    { typeface_lower(f) :
        f \in {"Simplified Arabic", "Traditional Arabic", "Arabic Typesetting", "Arial"} }

\* _process_run replacing every complex-script font, allow-listed or not
process_run_always_default(run) ==
    [run EXCEPT !.rPr = TRUE, !.lang = "ar-SA", !.cs = "Simplified Arabic",
                !.latin = IF run.latin = "none" /\ run.cs = "none" THEN "Arial"
                          ELSE run.latin]

\* RTLVisualEngine._process_run; "none" is an absent a:latin / a:cs element
process_run(run) ==
    LET r1 == [run EXCEPT !.rPr = TRUE, !.lang = "ar-SA"]
    IN  IF r1.latin = "none" /\ r1.cs = "none"
        THEN [r1 EXCEPT !.cs = "Simplified Arabic", !.latin = "Arial"]
        ELSE IF r1.cs = "none"
             THEN [r1 EXCEPT !.cs = "Simplified Arabic"]
             ELSE IF typeface_lower(r1.cs) \notin arabic_fonts_lower
                  THEN [r1 EXCEPT !.cs = "Simplified Arabic"]
                  ELSE r1

\* _process_paragraph without the r -> l branch of lines 608-609
process_paragraph_right_stays(paragraph) ==
    [paragraph EXCEPT
        !.pPr = TRUE,
        !.algn = IF paragraph.algn = "l" \/ paragraph.algn = "none" THEN "r"
                 ELSE paragraph.algn,
        !.rtl = "1",
        !.items = [i \in 1..Len(paragraph.items) |->
                      IF paragraph.items[i].tag = "r"
                      THEN process_run(paragraph.items[i])
                      ELSE paragraph.items[i]],
        !.defLang = "ar-SA"]

\* RTLVisualEngine._process_paragraph
process_paragraph(paragraph) ==
    LET current_align == paragraph.algn
        new_align == IF current_align = "l" \/ current_align = "none" THEN "r"
                     ELSE IF current_align = "r" THEN "l"
                     ELSE current_align
    IN  [paragraph EXCEPT
            !.pPr = TRUE,
            !.algn = new_align,
            !.rtl = "1",
            !.items = [i \in 1..Len(paragraph.items) |->
                          IF paragraph.items[i].tag = "r"
                          THEN process_run(paragraph.items[i])
                          ELSE paragraph.items[i]],
            !.defLang = "ar-SA"]

\* RTLVisualEngine._process_text_body
process_text_body(body) ==
    [body EXCEPT
        !.rtlCol = "1",
        !.paras = [i \in 1..Len(body.paras) |-> process_paragraph(body.paras[i])]]

\* a text body element that may be absent: <<>> or <<body>>
process_opt_text_body(txBody) ==
    IF txBody = <<>> THEN <<>> ELSE <<process_text_body(txBody[1])>>

Reverse(seq) == [i \in 1..Len(seq) |-> seq[Len(seq) + 1 - i]]

\* _process_table moving the first cell of a row behind the others instead of
\* reversing the row
process_table_rotates(table) ==
    LET do_cell(tc) == [tc EXCEPT !.txBody = process_opt_text_body(tc.txBody)]
        do_row(cells) ==
            [i \in 1..Len(cells) |-> do_cell(cells[(i % Len(cells)) + 1])]
    IN  [table EXCEPT
            !.rows = [r \in 1..Len(table.rows) |-> do_row(table.rows[r])],
            !.grid = IF table.gridDecl /\ Len(table.grid) > 1
                     THEN Reverse(table.grid)
                     ELSE table.grid]

\* RTLVisualEngine._process_table; a table is [gridDecl, grid, rows], a row a
\* sequence of cells, a cell [txBody]
process_table(table) ==
    LET do_cell(tc) == [tc EXCEPT !.txBody = process_opt_text_body(tc.txBody)]
        do_row(cells) ==
            IF Len(cells) <= 1
            THEN [i \in 1..Len(cells) |-> do_cell(cells[i])]
            ELSE [i \in 1..Len(cells) |-> do_cell(Reverse(cells)[i])]
    IN  [table EXCEPT
            !.rows = [r \in 1..Len(table.rows) |-> do_row(table.rows[r])],
            !.grid = IF table.gridDecl /\ Len(table.grid) > 1
                     THEN Reverse(table.grid)
                     ELSE table.grid]

\* RTLVisualEngine._get_bounding_box: <<>> for None
get_bounding_box(element) ==
    IF element.xfrm
    THEN <<[x |-> element.x, y |-> element.y, cx |-> element.cx, cy |-> element.cy]>>
    ELSE <<>>

\* _get_bounding_box, lines 703-708: int() raises ValueError on the x or y of a:off
bounding_box_raises(element) == element.xfrm /\ element.bad \in {"x", "y"}

\* _set_offset_x writing the y attribute
set_offset_x_writes_y(element, new_x) ==
    IF element.xfrm THEN [element EXCEPT !.y = new_x] ELSE element

\* RTLVisualEngine._set_offset_x
set_offset_x(element, new_x) ==
    IF element.xfrm THEN [element EXCEPT !.x = new_x] ELSE element

\* _set_flip_h toggling the flag as _process_connector does
set_flip_h_toggles(element) ==
    IF element.xfrm
    THEN [element EXCEPT !.flipH = IF element.flipH = "1" THEN "0" ELSE "1"]
    ELSE element

\* RTLVisualEngine._set_flip_h
set_flip_h(element) ==
    IF element.xfrm THEN [element EXCEPT !.flipH = "1"] ELSE element

\* RTLVisualEngine._process_shape
process_shape(self, element, space_width, space_offset) ==
    LET bbox == get_bounding_box(element)
    IN  IF bbox = <<>>
        THEN element
        ELSE LET new_x == mirror_x(bbox[1].x, bbox[1].cx, space_width, space_offset)
                 e1 == set_offset_x(element, new_x)
                 e2 == IF should_flip_shape(self, element, bbox[1], element.name)
                       THEN set_flip_h(e1)
                       ELSE e1
             IN  [e2 EXCEPT !.txBody = process_opt_text_body(e2.txBody)]

\* RTLVisualEngine._process_picture
process_picture(self, element, space_width, space_offset) ==
    LET bbox == get_bounding_box(element)
    IN  IF bbox = <<>>
        THEN element
        ELSE set_offset_x(element,
                          mirror_x(bbox[1].x, bbox[1].cx, space_width, space_offset))

\* RTLVisualEngine._process_connector
process_connector(self, element, space_width, space_offset) ==
    LET bbox == get_bounding_box(element)
    IN  IF bbox = <<>>
        THEN element
        ELSE LET e1 == set_offset_x(element,
                           mirror_x(bbox[1].x, bbox[1].cx, space_width, space_offset))
                 current_flip == IF e1.flipH = "none" THEN "0" ELSE e1.flipH
                 new_flip == IF current_flip = "1" THEN "0" ELSE "1"
             IN  [e1 EXCEPT !.flipH = new_flip]

\* _process_graphicFrame, lines 449-450: int() raises inside the frame's own try
graphicFrame_raises(element) == element.xfrm /\ element.bad = "x"

\* RTLVisualEngine._process_graphicFrame; its except clause (496-501) leaves the
\* frame as it was when int() raised
process_graphicFrame(self, element, space_width, space_offset) ==
    IF ~element.xfrm
    THEN element
    ELSE IF graphicFrame_raises(element)
    THEN element
    ELSE LET new_x == mirror_x(element.x, element.cx, space_width, space_offset)
             e1 == [element EXCEPT !.x = new_x]
         IN  IF e1.uri = "table" /\ e1.tbl # <<>>
             THEN [e1 EXCEPT !.tbl = <<process_table(e1.tbl[1])>>]
             ELSE e1

\* _process_group, lines 409-419, with the child space placed at the group's
\* own x: the declared one shifted by it, the fallback starting at it
child_space_at_group_x(element, group_x, group_width) ==
    IF element.chOffDecl /\ element.chExtDecl
    THEN [offset |-> group_x + element.chOff, width |-> element.chExt]
    ELSE [offset |-> group_x, width |-> group_width]

\* _process_group, lines 409-419: the child coordinate space (chOff/chExt)
child_space(element, group_x, group_width) ==
    IF element.chOffDecl /\ element.chExtDecl
    THEN [offset |-> element.chOff, width |-> element.chExt]
    ELSE [offset |-> 0, width |-> group_width]

\* _process_group, lines 401-402: int() raises on the x of a:off, before any write
group_raises_early(element) == element.xfrm /\ element.bad = "x"

\* _process_group, lines 413-415: int() raises on the x of a:chOff, after the
\* group's own x was written
group_raises_late(element) ==
    /\ element.xfrm /\ element.bad = "chOff"
    /\ element.chOffDecl /\ element.chExtDecl

RECURSIVE process_container(_, _, _, _)

\* RTLVisualEngine._process_group: the group as it is when the call returns or
\* raises
process_group(self, element, space_width, space_offset) ==
    IF ~element.xfrm
    THEN element
    ELSE IF group_raises_early(element)
    THEN element
    ELSE LET group_x == element.x
             group_width == element.cx
             new_x == mirror_x(group_x, group_width, space_width, space_offset)
             space == child_space(element, group_x, group_width)
         IN  IF group_raises_late(element)
             THEN [element EXCEPT !.x = new_x]
             ELSE [element EXCEPT
                      !.x = new_x,
                      !.children = process_container(self, element.children,
                                                     space.width, space.offset)]

\* RTLVisualEngine._process_container: every p:sp, p:pic, p:cxnSp (when
\* flip_connectors), p:grpSp and p:graphicFrame child is processed in place; a
\* child whose handler raises is left as it was at the raise (except clauses)
process_container(self, container, space_width, space_offset) ==
    [i \in 1..Len(container) |->
        LET child == container[i]
        IN  CASE child.kind = "sp" ->
                   IF bounding_box_raises(child)
                   THEN child
                   ELSE process_shape(self, child, space_width, space_offset)
              [] child.kind = "pic" ->
                   IF bounding_box_raises(child)
                   THEN child
                   ELSE process_picture(self, child, space_width, space_offset)
              [] child.kind = "cxnSp" ->
                   IF self.flip_connectors /\ ~bounding_box_raises(child)
                   THEN process_connector(self, child, space_width, space_offset)
                   ELSE child
              [] child.kind = "grpSp" ->
                   process_group(self, child, space_width, space_offset)
              [] child.kind = "graphicFrame" ->
                   process_graphicFrame(self, child, space_width, space_offset)
              [] OTHER -> child]

\* the number of errors one child adds to stats["errors"]: one per except clause
\* entered for it or below it
RECURSIVE container_errors(_, _)
child_errors(self, child) ==
    CASE child.kind \in {"sp", "pic"} ->
           IF bounding_box_raises(child) THEN 1 ELSE 0
      [] child.kind = "cxnSp" ->
           IF self.flip_connectors /\ bounding_box_raises(child) THEN 1 ELSE 0
      [] child.kind = "grpSp" ->
           IF ~child.xfrm THEN 0
           ELSE IF group_raises_early(child) \/ group_raises_late(child) THEN 1
           ELSE container_errors(self, child.children)
      [] child.kind = "graphicFrame" ->
           IF graphicFrame_raises(child) THEN 1 ELSE 0
      [] OTHER -> 0

\* _process_container, the except clauses: stats["errors"] += 1
container_errors(self, container) ==
    IF container = <<>>
    THEN 0
    ELSE child_errors(self, Head(container)) + container_errors(self, Tail(container))

\* the stats transform returns: <<>> when it raises ValueError
transform_stats(self, doc) ==
    IF ~doc.spTree
    THEN <<>>
    ELSE <<[errors |-> container_errors(self, doc.shapes)]>>

\* transform letting the exception of a shape propagate: no except clause
transform_propagates(self, doc) ==
    IF ~doc.spTree \/ container_errors(self, doc.shapes) > 0
    THEN <<>>
    ELSE <<[doc EXCEPT !.shapes =
                process_container(self, doc.shapes, self.slide_width, 0)]>>

\* RTLVisualEngine.transform followed by save: the tree written to the output
\* file.  A document is [spTree, shapes]; <<>> is "ValueError raised, no file".
transform(self, doc) ==
    IF ~doc.spTree
    THEN <<>>
    ELSE <<[doc EXCEPT !.shapes =
                process_container(self, doc.shapes, self.slide_width, 0)]>>

-----------------------------------------------------------------------------
(* ContentProcessor: content_processor.py.  A content record is            *)
(* [id, role, text, paragraphs], a record paragraph [text, level, is_bold].*)

\* "".join(parts)
RECURSIVE concat(_)
concat(parts) == IF parts = <<>> THEN <<>> ELSE Head(parts) \o concat(Tail(parts))

\* "\n".join(parts)
RECURSIVE join_nl(_)
join_nl(parts) ==
    IF parts = <<>> THEN <<>>
    ELSE IF Len(parts) = 1 THEN parts[1]
    ELSE parts[1] \o <<"NL">> \o join_nl(Tail(parts))

\* text.split("\n")
RECURSIVE split_nl(_)
split_nl(text) ==
    IF \A i \in 1..Len(text) : text[i] # "NL"
    THEN <<text>>
    ELSE LET k == CHOOSE i \in 1..Len(text) :
                      text[i] = "NL" /\ \A j \in 1..(i - 1) : text[j] # "NL"
         IN  <<SubSeq(text, 1, k - 1)>> \o split_nl(SubSeq(text, k + 1, Len(text)))

\* ContentProcessor._extract_paragraph: <<>> for None
extract_paragraph(p) ==
    LET is_run(it) == it.tag = "r"
        is_fld(it) == it.tag = "fld"
        runs == SelectSeq(p.items, is_run)
        flds == SelectSeq(p.items, is_fld)
        level == IF p.pPr THEN p.lvl ELSE 0
        texted(it) == it.hasT /\ it.t # <<>>
        text_parts == [i \in 1..Len(SelectSeq(runs, texted)) |-> SelectSeq(runs, texted)[i].t]
                        \o [i \in 1..Len(SelectSeq(flds, texted)) |-> SelectSeq(flds, texted)[i].t]
        is_bold == \E i \in 1..Len(runs) : runs[i].rPr /\ runs[i].b \in {"1", "true"}
        text == concat(text_parts)
    IN  IF strip(text) = <<>>
        THEN <<>>
        ELSE <<[text |-> text, level |-> level, is_bold |-> is_bold]>>

\* ContentProcessor._extract_paragraphs
RECURSIVE extract_paragraphs(_)
extract_paragraphs(paras) ==
    IF paras = <<>> THEN <<>>
    ELSE extract_paragraph(Head(paras)) \o extract_paragraphs(Tail(paras))

\* ContentProcessor._determine_role
determine_role(ph_type) ==
    IF ph_type \in {"title", "ctrTitle"} THEN "title"
    ELSE IF ph_type \in {"subTitle"} THEN "subtitle"
    ELSE IF ph_type \in {"body", "obj", "dt", "ftr", "sldNum"} THEN "body"
    ELSE "content"

\* ContentProcessor._get_y_position
get_y_position(shape) == IF shape.xfrm THEN shape.y ELSE 999999

\* ContentProcessor._extract_shape_content: <<>> for None
extract_shape_content(shape) ==
    IF shape.txBody = <<>>
    THEN <<>>
    ELSE LET paragraphs == extract_paragraphs(shape.txBody[1].paras)
             nonblank(p) == strip(p.text) # <<>>
             kept == SelectSeq(paragraphs, nonblank)
         IN  IF paragraphs = <<>>
             THEN <<>>
             ELSE <<[id |-> shape.id,
                     role |-> determine_role(shape.ph),
                     y_position |-> get_y_position(shape),
                     paragraphs |-> paragraphs,
                     original_text |-> join_nl([i \in 1..Len(kept) |-> kept[i].text])]>>

\* root.findall(".//p:sp"): the p:sp elements at any depth, in document order
RECURSIVE find_all_sp(_)
find_all_sp(container) ==
    IF container = <<>> THEN <<>>
    ELSE LET child == Head(container)
         IN  (IF child.kind = "sp" THEN <<child>>
              ELSE IF child.kind = "grpSp" THEN find_all_sp(child.children)
              ELSE <<>>)
             \o find_all_sp(Tail(container))

\* the elements left in document order: no sort
sort_by_y_document_order(elements) == elements

\* list.sort(key=lambda e: e.y_position): a stable insertion sort
RECURSIVE sort_by_y(_)
sort_by_y(elements) ==
    IF elements = <<>> THEN <<>>
    ELSE LET rest == sort_by_y(SubSeq(elements, 1, Len(elements) - 1))
             last == elements[Len(elements)]
             before == { i \in 1..Len(rest) : rest[i].y_position <= last.y_position }
             k == Cardinality(before)
         IN  SubSeq(rest, 1, k) \o <<last>> \o SubSeq(rest, k + 1, Len(rest))

\* ContentProcessor.extract_content_for_llm: the "elements" list
extract_content_for_llm(doc) ==
    LET shapes == find_all_sp(doc.shapes)
        found == concat([i \in 1..Len(shapes) |-> extract_shape_content(shapes[i])])
        nonblank(e) == strip(e.original_text) # <<>>
        extracted_elements == sort_by_y(SelectSeq(found, nonblank))
    IN  [i \in 1..Len(extracted_elements) |->
            [id |-> extracted_elements[i].id,
             role |-> extracted_elements[i].role,
             text |-> extracted_elements[i].original_text,
             paragraphs |-> extracted_elements[i].paragraphs]]

\* ContentProcessor._create_run
create_run(text) ==
    [tag |-> "r", rPr |-> TRUE, lang |-> "ar-SA", b |-> "none", fmt |-> "none",
     dirty |-> "0", latin |-> "none", cs |-> "none", hasT |-> TRUE, t |-> text]

\* ContentProcessor._create_paragraph
create_paragraph(text) ==
    [pPr |-> TRUE, algn |-> "r", rtl |-> "1", lvl |-> 0, defLang |-> "none",
     items |-> <<create_run(text)>>]

\* ContentProcessor._update_paragraph_text
update_paragraph_text(paragraph, new_text) ==
    LET is_run(it) == it.tag = "r"
        runs == SelectSeq(paragraph.items, is_run)
    IN  IF runs # <<>>
        THEN LET first_run == [runs[1] EXCEPT
                                  !.hasT = TRUE,
                                  !.t = new_text,
                                  !.lang = IF runs[1].rPr THEN "ar-SA" ELSE runs[1].lang]
                 \* the index of the first run among the items
                 first == CHOOSE i \in 1..Len(paragraph.items) :
                              /\ paragraph.items[i].tag = "r"
                              /\ \A j \in 1..(i - 1) : paragraph.items[j].tag # "r"
                 keep(i) == i = first \/ paragraph.items[i].tag # "r"
                 kept == { i \in 1..Len(paragraph.items) : keep(i) }
                 \* the k-th kept index
                 nth(k) == CHOOSE i \in kept : Cardinality({j \in kept : j <= i}) = k
             IN  [paragraph EXCEPT !.items =
                     [k \in 1..Cardinality(kept) |->
                         IF nth(k) = first THEN first_run ELSE paragraph.items[nth(k)]]]
        ELSE [paragraph EXCEPT !.items = Append(paragraph.items, create_run(new_text))]

\* _update_shape_text without the removal of the extra paragraphs (lines 375-378)
update_shape_text_keeps_extra(shape, translated) ==
    IF shape.txBody = <<>>
    THEN shape
    ELSE LET new_paragraphs ==
                 IF translated.paragraphs # <<>>
                 THEN [i \in 1..Len(translated.paragraphs) |-> translated.paragraphs[i].text]
                 ELSE split_nl(translated.text)
             existing_paras == shape.txBody[1].paras
             n == IF Len(new_paragraphs) > Len(existing_paras)
                  THEN Len(new_paragraphs) ELSE Len(existing_paras)
         IN  [shape EXCEPT !.txBody[1].paras =
                 [i \in 1..n |->
                     IF i > Len(new_paragraphs) THEN existing_paras[i]
                     ELSE IF i <= Len(existing_paras)
                          THEN update_paragraph_text(existing_paras[i], new_paragraphs[i])
                          ELSE create_paragraph(new_paragraphs[i])]]

\* ContentProcessor._update_shape_text
update_shape_text(shape, translated) ==
    IF shape.txBody = <<>>
    THEN shape
    ELSE LET new_paragraphs ==
                 IF translated.paragraphs # <<>>
                 THEN [i \in 1..Len(translated.paragraphs) |-> translated.paragraphs[i].text]
                 ELSE split_nl(translated.text)
             existing_paras == shape.txBody[1].paras
         IN  [shape EXCEPT !.txBody[1].paras =
                 [i \in 1..Len(new_paragraphs) |->
                     IF i <= Len(existing_paras)
                     THEN update_paragraph_text(existing_paras[i], new_paragraphs[i])
                     ELSE create_paragraph(new_paragraphs[i])]]

\* the lookup falling back to the first record when the id is not in the map
translation_lookup_or_first(elements, shape_id) ==
    LET hits == { i \in 1..Len(elements) : elements[i].id = shape_id }
    IN  IF elements = <<>> THEN <<>>
        ELSE IF hits = {} THEN <<elements[1]>>
        ELSE <<elements[CHOOSE i \in hits : \A j \in hits : j <= i]>>

\* inject_translated_content, lines 306-309: the id -> record lookup, the last
\* record of an id winning; <<>> when the id is not in the map
translation_lookup(elements, shape_id) ==
    LET hits == { i \in 1..Len(elements) : elements[i].id = shape_id }
    IN  IF hits = {} THEN <<>>
        ELSE <<elements[CHOOSE i \in hits : \A j \in hits : j <= i]>>

\* inject_translated_content, lines 315-325, on one container: every p:sp at
\* any depth whose id is in the map is updated in place
RECURSIVE inject_container(_, _)
inject_container(container, elements) ==
    [i \in 1..Len(container) |->
        LET child == container[i]
        IN  IF child.kind = "sp"
            THEN IF translation_lookup(elements, child.id) # <<>>
                 THEN update_shape_text(child, translation_lookup(elements, child.id)[1])
                 ELSE child
            ELSE IF child.kind = "grpSp"
                 THEN [child EXCEPT !.children = inject_container(child.children, elements)]
                 ELSE child]

\* inject_translated_content dropping the shapes it has no record for
inject_translated_content_drops(doc, elements) ==
    LET known(sh) == sh.kind # "sp" \/ translation_lookup(elements, sh.id) # <<>>
    IN  [doc EXCEPT !.shapes = inject_container(SelectSeq(doc.shapes, known), elements)]

\* ContentProcessor.inject_translated_content: the document written to output_path
inject_translated_content(doc, elements) ==
    [doc EXCEPT !.shapes = inject_container(doc.shapes, elements)]

-----------------------------------------------------------------------------
(* ChartProcessor: chart_processor.py.  A chart is [title, titleRPr,       *)
(* titleLang, series, plots, axes]: title is <<>> or <<text>> (the a:t of   *)
(* the first run of the title), a series [idx, name, cats] with idx and     *)
(* name <<>> or <<text>>, a plot [tag, barDir], an axis [tag, children], a  *)
(* child of an axis [tag, kids], a kid of c:scaling [tag, val].  A chart    *)
(* text record is [chart_title, series, categories].                        *)

\* the position of the first element of the sequence with the tag, 0 if none:
\* find("c:<tag>")
FirstTagged(seq, tag) ==
    IF \E i \in 1..Len(seq) : seq[i].tag = tag
    THEN CHOOSE i \in 1..Len(seq) :
            /\ seq[i].tag = tag
            /\ \A j \in 1..(i - 1) : seq[j].tag # tag
    ELSE 0

\* list.insert(idx, e), idx counted from 1
InsertAt(seq, idx, e) ==
    SubSeq(seq, 1, idx - 1) \o <<e>> \o SubSeq(seq, idx, Len(seq))

\* str(idx) of enumerate(series_elements)
IndexText == <<"0", "1", "2">>

\* ChartProcessor.extract_chart_text
extract_chart_text(doc) ==
    LET named == { i \in 1..Len(doc.series) :
                     doc.series[i].name # <<>> /\ doc.series[i].name[1] # "" }
        rec(i) == [id |-> IF doc.series[i].idx # <<>>
                          THEN doc.series[i].idx[1]
                          ELSE IndexText[i],
                   name |-> doc.series[i].name[1]]
        RECURSIVE pick(_)
        pick(i) == IF i > Len(doc.series) THEN <<>>
                   ELSE (IF i \in named THEN <<rec(i)>> ELSE <<>>) \o pick(i + 1)
    IN  [chart_title |-> IF doc.title # <<>> /\ doc.title[1] # ""
                         THEN doc.title ELSE <<>>,
         series |-> pick(1),
         categories |-> IF doc.series = <<>>
                        THEN <<>>
                        ELSE SelectSeq(doc.series[1].cats, LAMBDA c : c # "")]

ArSeries == <<"AR series 1", "AR series 2", "AR series 3">>
ArCategories == <<"AR category 1", "AR category 2", "AR category 3">>

\* translate_mock_chart (main.py)
translate_mock_chart(chart_json) ==
    [chart_title |-> IF chart_json.chart_title # <<>> THEN <<"AR title">> ELSE <<>>,
     series |-> [i \in 1..Len(chart_json.series) |->
                    [chart_json.series[i] EXCEPT !.name = ArSeries[i]]],
     categories |-> [i \in 1..Len(chart_json.categories) |-> ArCategories[i]]]

\* inject_chart_text, lines 194-227, always appending a new c:orientation
flip_value_axis_appends(doc) ==
    LET b == FirstTagged(doc.plots, "barChart")
        v == FirstTagged(doc.axes, "valAx")
    IN  IF b = 0 \/ doc.plots[b].barDir # "bar" \/ v = 0
        THEN doc
        ELSE LET val_ax == doc.axes[v].children
                 s0 == FirstTagged(val_ax, "scaling")
                 ax_id == FirstTagged(val_ax, "axId")
                 new_scaling == [tag |-> "scaling", kids |-> <<>>]
                 with_scaling ==
                     IF s0 # 0 THEN val_ax
                     ELSE IF ax_id # 0 THEN InsertAt(val_ax, ax_id, new_scaling)
                     ELSE Append(val_ax, new_scaling)
                 sc == FirstTagged(with_scaling, "scaling")
                 kids == with_scaling[sc].kids
                 set_kids == Append(kids, [tag |-> "orientation", val |-> "maxMin"])
             IN  [doc EXCEPT !.axes[v].children =
                      [with_scaling EXCEPT ![sc].kids = set_kids]]

\* inject_chart_text, lines 194-227: the RTL bar chart adjustment
flip_value_axis(doc) ==
    LET b == FirstTagged(doc.plots, "barChart")
        v == FirstTagged(doc.axes, "valAx")
    IN  IF b = 0 \/ doc.plots[b].barDir # "bar" \/ v = 0
        THEN doc
        ELSE LET val_ax == doc.axes[v].children
                 s0 == FirstTagged(val_ax, "scaling")
                 ax_id == FirstTagged(val_ax, "axId")
                 new_scaling == [tag |-> "scaling", kids |-> <<>>]
                 with_scaling ==
                     IF s0 # 0 THEN val_ax
                     ELSE IF ax_id # 0 THEN InsertAt(val_ax, ax_id, new_scaling)
                     ELSE Append(val_ax, new_scaling)
                 sc == FirstTagged(with_scaling, "scaling")
                 kids == with_scaling[sc].kids
                 o == FirstTagged(kids, "orientation")
                 set_kids ==
                     IF o = 0
                     THEN Append(kids, [tag |-> "orientation", val |-> "maxMin"])
                     ELSE [kids EXCEPT ![o].val = "maxMin"]
             IN  [doc EXCEPT !.axes[v].children =
                      [with_scaling EXCEPT ![sc].kids = set_kids]]

\* inject_chart_text, lines 157-192: title, series names by id, categories by
\* position
inject_chart_texts(doc, translated) ==
    LET new_title == translated.chart_title # <<>> /\ translated.chart_title[1] # ""
                     /\ doc.title # <<>>
        \* the dict built from the list: the last entry of an id wins
        in_map(id) == \E k \in 1..Len(translated.series) : translated.series[k].id = id
        lookup(id) ==
            translated.series[CHOOSE k \in 1..Len(translated.series) :
                /\ translated.series[k].id = id
                /\ \A m \in (k + 1)..Len(translated.series) :
                      translated.series[m].id # id].name
        do_name(ser) ==
            IF ser.idx # <<>> /\ in_map(ser.idx[1]) /\ ser.name # <<>>
            THEN <<lookup(ser.idx[1])>>
            ELSE ser.name
        do_cats(ser) ==
            IF translated.categories = <<>>
            THEN ser.cats
            ELSE [i \in 1..Len(ser.cats) |->
                     IF i <= Len(translated.categories)
                     THEN translated.categories[i]
                     ELSE ser.cats[i]]
    IN  [doc EXCEPT
            !.title = IF new_title THEN translated.chart_title ELSE doc.title,
            !.titleLang = IF new_title /\ doc.titleRPr THEN "ar-SA" ELSE doc.titleLang,
            !.series = [i \in 1..Len(doc.series) |->
                           [doc.series[i] EXCEPT !.name = do_name(doc.series[i]),
                                                 !.cats = do_cats(doc.series[i])]]]

\* ChartProcessor.inject_chart_text: the chart written to output_path
inject_chart_text(doc, translated) ==
    flip_value_axis(inject_chart_texts(doc, translated))

-----------------------------------------------------------------------------
(* Specification SpecMirror: mirror_x applied, and applied again to its    *)
(* own result, on bounded inputs.                                          *)

\* coordinates in EMU, in steps of 500,000
Coords == {i * 500000 : i \in 0..MaxCoord}

\* widths of coordinate spaces: the default page, a group's child extent, a small space
SpaceWidths == {DEFAULT_SLIDE_WIDTH, 2000000, 500000}

\* no translate_slides run is modelled
NoJob == job = [parts |-> <<>>, next |-> 1, replacements |-> {}, status |-> "none"]

\* no chart part is being processed, no translator is chosen
NoChart ==
    /\ chart = [xml |-> <<>>, content |-> <<>>, translated |-> <<>>, first |-> <<>>,
                final |-> <<>>, runs |-> 0]
    /\ translator = "none"

\* no SlideTranslator is modelled
NoSession ==
    /\ work_dir = <<>>
    /\ session = <<>>
    /\ pipelines = <<>>

NoPipe ==
    /\ pres_xml = <<>>
    /\ flip_connectors = TRUE
    /\ kind = "slide"
    /\ slide_xml = <<>>
    /\ content_json = <<>>
    /\ translated_json = <<>>
    /\ rtl_xml = <<>>
    /\ final_xml = <<>>
    /\ pc = "none"
    /\ stats = <<>>
    /\ NoJob
    /\ NoChart
    /\ NoSession

InitMirror ==
    /\ mx \in [x : Coords \cup {-500000}, width : Coords \cup {3000000},
               space_width : SpaceWidths, space_offset : Coords]
    /\ mout = <<>>
    /\ NoPipe

\* One call of mirror_x: on mx.x first, then on the previous result, with the
\* same width and the same space.
Mirror ==
    /\ Len(mout) < MaxMirrorRuns
    /\ LET arg == IF mout = <<>> THEN mx.x ELSE mout[Len(mout)]
       IN  mout' = Append(mout, mirror_x(arg, mx.width, mx.space_width, mx.space_offset))
    /\ UNCHANGED <<sessionVars, translator, chart, mx, pipeVars>>

NextMirror == Mirror

SpecMirror == InitMirror /\ [][NextMirror]_vars

-----------------------------------------------------------------------------
(* Input trees *)

NameShape == <<"T","i","t","l","e"," ","1">>
NameArrow == <<"A","r","r","o","w">>
NameLogo == <<"C","o","m","p","a","n","y","L","o","g","o">>
NameSilicon == <<"s","i","l","i","c","o","n">>

RunPlain(t) ==
    [tag |-> "r", rPr |-> FALSE, lang |-> "none", b |-> "none", fmt |-> "none",
     dirty |-> "none", latin |-> "none", cs |-> "none", hasT |-> TRUE, t |-> t]

RunFmt(t) ==
    [tag |-> "r", rPr |-> TRUE, lang |-> "en-US", b |-> "1", fmt |-> "sz=1800",
     dirty |-> "none", latin |-> "Calibri", cs |-> "none", hasT |-> TRUE, t |-> t]

RunCs(t) ==
    [tag |-> "r", rPr |-> TRUE, lang |-> "en-US", b |-> "none", fmt |-> "sz=1200",
     dirty |-> "none", latin |-> "none", cs |-> "Tahoma", hasT |-> TRUE, t |-> t]

Fld(t) ==
    [tag |-> "fld", rPr |-> TRUE, lang |-> "en-US", b |-> "none", fmt |-> "none",
     dirty |-> "none", latin |-> "none", cs |-> "none", hasT |-> TRUE, t |-> t]

Para(algn, items) ==
    [pPr |-> algn # "none", algn |-> algn, rtl |-> "none", lvl |-> 0,
     defLang |-> "none", items |-> items]

\* the paragraphs the input text bodies are made of
ParaSamples ==
    << Para("l", <<RunFmt(<<"a">>), RunPlain(<<"b">>)>>),
       Para("none", <<RunPlain(<<"b", " ", "c">>)>>),
       Para("ctr", <<Fld(<<"7">>), RunCs(<<"c">>), RunFmt(<<"a">>)>>),
       Para("r", <<>>),
       Para("just", <<RunPlain(<<" ">>)>>) >>

\* the text body of m paragraphs that starts at sample `start`
BodyOf(start, m) ==
    [rtlCol |-> "none",
     paras |-> [i \in 1..m |-> ParaSamples[((start + i - 2) % Len(ParaSamples)) + 1]]]

DefaultNode ==
    [kind |-> "sp", id |-> 0, name |-> NameShape, ph |-> "none", xfrm |-> TRUE,
     x |-> 0, y |-> 0, cx |-> 0, cy |-> 0, flipH |-> "none", prst |-> "none",
     chOffDecl |-> FALSE, chExtDecl |-> FALSE, chOff |-> 0, chExt |-> 0,
     txBody |-> <<>>, uri |-> "none", tbl |-> <<>>, children |-> <<>>,
     bad |-> "none"]

Cell(start) == [txBody |-> <<BodyOf(start, 1)>>]

TableSample ==
    [gridDecl |-> TRUE, grid |-> <<100, 200, 300>>,
     rows |-> << <<Cell(1), Cell(2), Cell(3)>>, <<Cell(2)>>, <<>> >>]

\* a leaf of the geometry trees
Leaf(k, x, xf) ==
    [DefaultNode EXCEPT
        !.kind = k, !.id = 10, !.xfrm = xf, !.x = x, !.y = 100000,
        !.cx = 500000, !.cy = 400000,
        !.prst = IF k = "sp" THEN "rect" ELSE "none",
        !.txBody = IF k = "sp" THEN <<BodyOf(1, 1)>> ELSE <<>>,
        !.uri = IF k = "graphicFrame" THEN "table" ELSE "none",
        !.tbl = IF k = "graphicFrame" THEN <<TableSample>> ELSE <<>>]

\* a chain of d nested groups: each group holds the leaf and the next group
RECURSIVE GroupChain(_, _, _, _)
GroupChain(d, g, inner, leaf) ==
    [DefaultNode EXCEPT
        !.kind = "grpSp", !.id = 20 + d, !.name = <<"G">>, !.xfrm = g.xfrm,
        !.x = g.x, !.y = 300000, !.cx = 2000000, !.cy = 1000000,
        !.chOffDecl = g.decl \in {"both", "off"},
        !.chExtDecl = g.decl = "both",
        !.chOff = g.chOff, !.chExt = g.chExt,
        !.children = <<leaf>> \o
                     (IF d > 1 THEN <<GroupChain(d - 1, inner, inner, leaf)>> ELSE <<>>)]

OuterParams ==
    [x : {0, 1000000}, xfrm : BOOLEAN, decl : {"both", "none", "off"},
     chOff : {0, 500000}, chExt : {2000000, 3000000}]

InnerParams ==
    [x : {500000}, xfrm : BOOLEAN, decl : {"both", "none"},
     chOff : {500000}, chExt : {1000000}]

Leaves ==
    { Leaf(k, x, xf) : k \in {"sp", "pic", "cxnSp", "graphicFrame"},
                       x \in {500000, 1500000}, xf \in BOOLEAN }

\* Scenario A's shape: x = 0, width 3,000,000, in the root space
ScenarioAShape ==
    [DefaultNode EXCEPT !.id = 2, !.x = 0, !.y = 500000, !.cx = 3000000, !.cy = 3000000,
                        !.prst = "rect"]

GeometryTrees ==
    { <<ScenarioAShape, GroupChain(d, g, inner, leaf)>> :
        d \in 1..MaxDepth, g \in OuterParams, inner \in InnerParams, leaf \in Leaves }

\* the text of a classifier test shape: none, blank, in a run, in a field only
TextVariant(v) ==
    CASE v = "none" -> <<>>
      [] v = "blank" -> <<BodyOf(5, 1)>>
      [] v = "run" -> <<BodyOf(2, 1)>>
      [] v = "fld" -> <<[rtlCol |-> "0",
                         paras |-> <<Para("l", <<Fld(<<"7">>)>>)>>]>>

ClassifierTrees ==
    { << [DefaultNode EXCEPT
            !.id = 3, !.name = c.name, !.prst = c.prst, !.flipH = c.flipH,
            !.x = c.x, !.y = 0, !.cx = c.cx, !.cy = c.cy,
            !.txBody = TextVariant(c.text)] >> :
        c \in [name : {NameShape, NameLogo}, prst : {"none", "rect", "rightArrow"},
               flipH : {"none", "0", "1"}, x : {0, 5000000},
               cx : {1000000, 6000000}, cy : {0, 500000, 3000000},
               text : {"none", "blank", "run", "fld"}] }

\* a text shape with a box, sibling of the nodes below
SibShape(id, x) ==
    [DefaultNode EXCEPT
        !.id = id, !.x = x, !.y = 100000, !.cx = 500000, !.cy = 400000,
        !.prst = "rect", !.txBody = <<BodyOf(1, 1)>>]

\* a node of kind k whose attribute b is not an integer ("none": all are)
ErrNode(k, b, id) ==
    [DefaultNode EXCEPT
        !.kind = k, !.id = id, !.name = <<"E">>, !.x = 1500000, !.y = 100000,
        !.cx = 500000, !.cy = 400000, !.bad = b,
        !.chOffDecl = (k = "grpSp"), !.chExtDecl = (k = "grpSp"),
        !.chExt = IF k = "grpSp" THEN 500000 ELSE 0,
        !.txBody = IF k = "sp" THEN <<BodyOf(1, 1)>> ELSE <<>>,
        !.uri = IF k = "graphicFrame" THEN "table" ELSE "none",
        !.tbl = IF k = "graphicFrame" THEN <<TableSample>> ELSE <<>>,
        !.children = IF k = "grpSp" THEN <<SibShape(id + 1, 0)>> ELSE <<>>]

NodeKinds == {"sp", "pic", "cxnSp", "grpSp", "graphicFrame"}

\* the attributes of a node of kind k that int() is applied to
BadAttrs(k) == IF k = "grpSp" THEN {"none", "x", "y", "chOff"} ELSE {"none", "x", "y"}

\* a shape, a node that may not parse, a group holding another such node and a
\* shape, and a table frame
ErrorTrees ==
    { << SibShape(31, 500000),
         ErrNode(c.k1, c.b1, 40),
         [DefaultNode EXCEPT
            !.kind = "grpSp", !.id = 33, !.name = <<"G">>, !.x = 1000000, !.y = 300000,
            !.cx = 2000000, !.cy = 1000000, !.chOffDecl = TRUE, !.chExtDecl = TRUE,
            !.chOff = 0, !.chExt = 2000000,
            !.children = <<ErrNode(c.k2, c.b2, 50), SibShape(34, 500000)>>],
         ErrNode("graphicFrame", "none", 36) >> :
        c \in { d \in [k1 : NodeKinds, b1 : {"none", "x", "y", "chOff"},
                        k2 : NodeKinds, b2 : {"none", "x", "y", "chOff"}] :
                    d.b1 \in BadAttrs(d.k1) /\ d.b2 \in BadAttrs(d.k2) } }

\* boxes <<x, cx, cy>> at and next to the limits of the classifier for the page
\* widths 12,192,000 and 9,144,000: 15% and 10% of the width, the flip threshold
\* (40%), the aspect ratios 0.5, 1.5 and 2.0, and height 0
EdgeBoxes ==
    { <<0, 1000000, 1000000>>, <<0, 1000000, 0>>,
      <<0, 1000000, 2000000>>, <<0, 1000000, 2000001>>,
      <<0, 1000000, 500000>>, <<0, 1000000, 499999>>,
      <<0, 1828799, 1000000>>, <<0, 1828800, 1000000>>,
      <<0, 1371599, 1000000>>, <<0, 1371600, 1000000>>,
      <<1219199, 1000000, 1000000>>, <<1219200, 1000000, 1000000>>,
      <<914399, 1000000, 1000000>>, <<914400, 1000000, 1000000>>,
      <<10000000, 972800, 900000>>, <<10000000, 972801, 900000>>,
      <<3000000, 4876800, 1000000>>, <<3000000, 4876799, 1000000>>,
      <<3000000, 3657600, 1000000>>, <<3000000, 3657599, 1000000>>,
      <<3000000, 6000000, 4000000>>, <<3000000, 6000000, 3999999>>,
      <<3000000, 6000000, 0>> }

\* one shape without text (no text body, or a blank run) in each of these boxes
ClassifierEdgeTrees ==
    { << [DefaultNode EXCEPT
            !.id = 3, !.name = c.name, !.prst = c.prst, !.flipH = c.flipH,
            !.x = c.box[1], !.y = 0, !.cx = c.box[2], !.cy = c.box[3],
            !.txBody = TextVariant(c.text)] >> :
        c \in [name : {NameShape, NameLogo, NameSilicon}, prst : {"none", "rect", "rightArrow"},
               flipH : {"none", "0"}, box : EdgeBoxes, text : {"none", "blank"}] }

\* a picture or a connector (kind k) with a box
Drawn(k, id, name, x, cx, flipH) ==
    [DefaultNode EXCEPT
        !.kind = k, !.id = id, !.name = name, !.x = x, !.y = 0, !.cx = cx,
        !.cy = 1000000, !.flipH = flipH,
        !.prst = IF k = "cxnSp" THEN "straightConnector1" ELSE "none"]

\* a picture (Scenario C's among them), a connector, and a group with a
\* declared child space that holds a picture and a connector
DrawnTrees ==
    { << Drawn("pic", 61, c.name, c.box[1], c.box[2], c.picFlip),
         Drawn("cxnSp", 62, <<"L">>, 2000000, 3000000, c.cxnFlip),
         [DefaultNode EXCEPT
            !.kind = "grpSp", !.id = 63, !.name = <<"G">>, !.x = 1000000, !.y = 300000,
            !.cx = 2000000, !.cy = 1000000, !.chOffDecl = TRUE, !.chExtDecl = TRUE,
            !.chOff = 500000, !.chExt = 2000000,
            !.children = << Drawn("pic", 64, NameArrow, 500000, 500000, c.cxnFlip),
                            Drawn("cxnSp", 65, <<"L">>, 1000000, 500000, c.picFlip) >>] >> :
        c \in [name : {NameLogo, NameShape, NameArrow},
               box : { <<0, 1000000>>, <<5000000, 6000000>> },
               picFlip : {"none", "0", "1"}, cxnFlip : {"none", "0", "1"}] }

\* a run with the given a:latin and a:cs typefaces ("none": no such element)
RunFont(latin, cs) ==
    [tag |-> "r", rPr |-> (latin # "none" \/ cs # "none"), lang |-> "en-US",
     b |-> "none", fmt |-> "none", dirty |-> "none", latin |-> latin, cs |-> cs,
     hasT |-> TRUE, t |-> <<"x">>]

\* a text shape whose body has a paragraph of one run, a paragraph of a field
\* and a run, and an empty paragraph
TextTrees ==
    { << [DefaultNode EXCEPT
            !.id = 71, !.x = 1000000, !.y = 0, !.cx = 2000000, !.cy = 1000000,
            !.prst = "rect",
            !.txBody = <<[rtlCol |-> c.rtlCol,
                          paras |-> << Para(c.algn, <<RunFont(c.latin, c.cs)>>),
                                       Para(c.algn2, <<Fld(<<"7">>), RunFont("none", c.cs)>>),
                                       Para("none", <<>>) >>]>>] >> :
        c \in [rtlCol : {"none", "0"}, algn : {"l", "r", "ctr", "just"},
               algn2 : {"none", "dist", "r"}, latin : {"none", "Calibri"},
               cs : {"none", "Tahoma", "", "Traditional Arabic", "ARIAL",
                     "Simplified Arabic"}] }

\* the rows a table is made of: none to three cells, the cells of a row all
\* different, one row with a cell that has no text body
RowSamples ==
    { <<>>, <<Cell(1)>>, <<Cell(1), Cell(2)>>, <<Cell(1), Cell(2), Cell(3)>>,
      <<[txBody |-> <<>>], Cell(4), Cell(1)>> }

\* the a:tblGrid of a table: absent, or with no to three a:gridCol widths
GridSamples ==
    { [gridDecl |-> FALSE, grid |-> <<>>] } \cup
    { [gridDecl |-> TRUE, grid |-> g] :
        g \in { <<>>, <<100>>, <<100, 200>>, <<100, 200, 300>> } }

TableSamples ==
    { [gridDecl |-> g.gridDecl, grid |-> g.grid, rows |-> rows] :
        g \in GridSamples,
        rows \in UNION { [1..n -> RowSamples] : n \in 0..MaxRows } }

\* a graphic frame with a table, at the top level
TableTrees ==
    { << [DefaultNode EXCEPT
            !.kind = "graphicFrame", !.id = 81, !.name = <<"T">>, !.x = 1000000,
            !.y = 0, !.cx = 4000000, !.cy = 2000000, !.uri = "table",
            !.tbl = <<t>>] >> :
        t \in TableSamples }

EngineTrees ==
    GeometryTrees \cup ClassifierTrees \cup ErrorTrees \cup ClassifierEdgeTrees
        \cup DrawnTrees \cup TextTrees \cup TableTrees

\* the parts of the pipeline: a text shape (id 2), a group (id 4) holding a text
\* shape (id 3), a picture (id 5)
PipeTree(bodyA, xfA, bodyB) ==
    << [DefaultNode EXCEPT
          !.id = 2, !.ph = "title", !.xfrm = xfA, !.x = 0, !.y = 200000,
          !.cx = 3000000, !.cy = 1000000, !.prst = "rect", !.txBody = bodyA],
       [DefaultNode EXCEPT
          !.kind = "grpSp", !.id = 4, !.name = <<"G">>, !.x = 1000000, !.y = 0,
          !.cx = 2000000, !.cy = 1000000, !.chOffDecl = TRUE, !.chExtDecl = TRUE,
          !.chOff = 0, !.chExt = 2000000,
          !.children = << [DefaultNode EXCEPT
                             !.id = 3, !.x = 500000, !.y = 100000, !.cx = 500000,
                             !.cy = 500000, !.txBody = bodyB] >>],
       [DefaultNode EXCEPT
          !.kind = "pic", !.id = 5, !.name = NameLogo, !.x = 0, !.y = 0,
          !.cx = 1000000, !.cy = 1000000] >>

PipeBodies ==
    {<<>>} \cup { <<BodyOf(start, m)>> : start \in {1, 3, 4}, m \in 0..MaxParas }

PipeTrees ==
    { PipeTree(bodyA, xfA, bodyB) :
        bodyA \in PipeBodies, xfA \in BOOLEAN, bodyB \in {<<>>, <<BodyOf(1, 2)>>} }

Digits == <<"1", "2", "3", "4", "5", "6", "7", "8", "9">>

\* the text of the i-th paragraph of a translated record
TrText(i) == <<"T", Digits[i]>>

\* what the translator may return for one id: option 0 no record, 1..MaxNewParas
\* a record of that many paragraphs, then a record with only "text" of one line,
\* and one with only "text" of two lines
TrRecord(id, option) ==
    IF option = 0 THEN <<>>
    ELSE IF option <= MaxNewParas
    THEN <<[id |-> id, role |-> "content",
            text |-> join_nl([i \in 1..option |-> TrText(i)]),
            paragraphs |-> [i \in 1..option |->
                               [text |-> TrText(i), level |-> 0, is_bold |-> FALSE]]]>>
    ELSE <<[id |-> id, role |-> "content",
            text |-> IF option = MaxNewParas + 1 THEN <<"X">> ELSE <<"X", "NL", "Y">>,
            paragraphs |-> <<>>]>>

\* the record sets a translator (an LLM, or the mock) may hand back: records for
\* any of the ids 2 and 3, and possibly one for an id (99) no shape has
TranslatorOutputs ==
    { TrRecord(99, o99) \o TrRecord(2, o2) \o TrRecord(3, o3) :
        o2 \in 0..(MaxNewParas + 2), o3 \in 0..(MaxNewParas + 2), o99 \in 0..1 }

-----------------------------------------------------------------------------
(* Specification SpecEngine: RTLVisualEngine run on one part, as            *)
(* visual_engine.py's main block does.                                     *)

NoMirror ==
    /\ mx = [x |-> 0, width |-> 0, space_width |-> 0, space_offset |-> 0]
    /\ mout = <<>>

InitEngine ==
    /\ NoMirror
    /\ pres_xml \in {<<>>, <<9144000>>}
    /\ flip_connectors \in BOOLEAN
    /\ kind = "slide"
    /\ slide_xml \in { <<[spTree |-> TRUE, shapes |-> t]>> : t \in EngineTrees }
    /\ content_json = <<>>
    /\ translated_json = <<>>
    /\ rtl_xml = <<>>
    /\ final_xml = <<>>
    /\ pc = "xml"
    /\ stats = <<>>
    /\ NoJob
    /\ NoChart
    /\ NoSession

\* engine = RTLVisualEngine(...); engine.transform(); engine.save(output_path)
EngineMain ==
    /\ pc = "xml"
    /\ rtl_xml' = transform(engine_init(pres_xml, flip_connectors), slide_xml[1])
    /\ stats' = transform_stats(engine_init(pres_xml, flip_connectors), slide_xml[1])
    /\ pc' = "rtl"
    /\ UNCHANGED <<sessionVars, translator, chart, mx, mout, pres_xml, flip_connectors, kind, slide_xml, content_json,
                   translated_json, final_xml, job>>

NextEngine == EngineMain

SpecEngine == InitEngine /\ [][NextEngine]_vars

-----------------------------------------------------------------------------
(* Specification SpecTwice: the engine run on a part, then run again, with  *)
(* the same presentation.xml and options, on the file the first run saved.  *)

\* engine = RTLVisualEngine(<the saved file>, ...); engine.transform();
\* engine.save(output_path)
EngineAgain ==
    /\ pc = "rtl"
    /\ rtl_xml # <<>>
    /\ final_xml' = transform(engine_init(pres_xml, flip_connectors), rtl_xml[1])
    /\ stats' = transform_stats(engine_init(pres_xml, flip_connectors), rtl_xml[1])
    /\ pc' = "rtl2"
    /\ UNCHANGED <<sessionVars, translator, chart, mx, mout, pres_xml, flip_connectors, kind, slide_xml, content_json,
                   translated_json, rtl_xml, job>>

NextTwice == EngineMain \/ EngineAgain

SpecTwice == InitEngine /\ [][NextTwice]_vars

-----------------------------------------------------------------------------
(* Specification Spec: the pipeline of one part (SlideTranslator).         *)

Init ==
    /\ NoMirror
    /\ pres_xml = <<>>
    /\ flip_connectors = TRUE
    /\ kind \in {"slide", "master", "layout"}
    /\ slide_xml \in { <<[spTree |-> TRUE, shapes |-> t]>> : t \in PipeTrees }
    /\ content_json = <<>>
    /\ translated_json = <<>>
    /\ rtl_xml = <<>>
    /\ final_xml = <<>>
    /\ pc = "xml"
    /\ stats = <<>>
    /\ NoJob
    /\ NoChart
    /\ NoSession

\* masters and layouts are translated and injected only when they have text
has_elements == kind = "slide" \/ content_json # <<>>

\* Step 2: content_json = extract_content_for_llm(slide_xml)
ExtractContent ==
    /\ pc = "xml"
    /\ content_json' = extract_content_for_llm(slide_xml[1])
    /\ pc' = "content"
    /\ UNCHANGED <<sessionVars, translator, chart, mx, mout, pres_xml, flip_connectors, kind, slide_xml,
                   translated_json, rtl_xml, final_xml, stats, job>>

\* Step 3: translated_json = translate_with_...(content_json)
Translate ==
    /\ pc = "content"
    /\ has_elements
    /\ translated_json' \in TranslatorOutputs
    /\ pc' = "translated"
    /\ UNCHANGED <<sessionVars, translator, chart, mx, mout, pres_xml, flip_connectors, kind, slide_xml,
                   content_json, rtl_xml, final_xml, stats, job>>

\* Step 4: engine.transform(); engine.save(rtl_xml)
Transform ==
    /\ \/ pc = "translated"
       \/ pc = "content" /\ ~has_elements
    /\ rtl_xml' = transform(engine_init(pres_xml, flip_connectors), slide_xml[1])
    /\ stats' = transform_stats(engine_init(pres_xml, flip_connectors), slide_xml[1])
    /\ pc' = "rtl"
    /\ UNCHANGED <<sessionVars, translator, chart, mx, mout, pres_xml, flip_connectors, kind, slide_xml,
                   content_json, translated_json, final_xml, job>>

\* inject_translated_content reading the untransformed part
injection_input_untransformed == slide_xml

\* the file inject_translated_content is given to read: rtl_xml
injection_input == rtl_xml

\* Step 5: inject_translated_content(rtl_xml, translated_json, final_xml)
Inject ==
    /\ pc = "rtl"
    /\ has_elements
    /\ final_xml' = <<inject_translated_content(injection_input[1], translated_json)>>
    /\ pc' = "final"
    /\ UNCHANGED <<sessionVars, translator, chart, mx, mout, pres_xml, flip_connectors, kind, slide_xml,
                   content_json, translated_json, rtl_xml, stats, job>>

\* a master or layout without text: the RTL XML is used as it is
UseRtlAsIs ==
    /\ pc = "rtl"
    /\ ~has_elements
    /\ final_xml' = rtl_xml
    /\ pc' = "final"
    /\ UNCHANGED <<sessionVars, translator, chart, mx, mout, pres_xml, flip_connectors, kind, slide_xml,
                   content_json, translated_json, rtl_xml, stats, job>>

Next == ExtractContent \/ Translate \/ Transform \/ Inject \/ UseRtlAsIs

Spec == Init /\ [][Next]_vars

-----------------------------------------------------------------------------
(* Specification SpecChart: one chart part through the body of the loop of  *)
(* _translate_all_charts, and inject_chart_text run again on its output.    *)

Plot(tag, barDir) == [tag |-> tag, barDir |-> barDir]

\* the plot areas: a horizontal and a vertical bar chart, a line and a pie
\* chart, a 3-D bar chart, and bar charts combined with a line chart
PlotSamples ==
    { <<Plot("barChart", "bar")>>, <<Plot("barChart", "col")>>,
      <<Plot("lineChart", "none")>>, <<Plot("pieChart", "none")>>,
      <<Plot("bar3DChart", "bar")>>,
      <<Plot("lineChart", "none"), Plot("barChart", "bar")>>,
      <<Plot("barChart", "bar"), Plot("lineChart", "none")>>,
      <<Plot("barChart", "col"), Plot("lineChart", "none")>> }

Elem(tag) == [tag |-> tag, kids |-> <<>>]
Kid(tag, val) == [tag |-> tag, val |-> val]
Scaling(kids) == [tag |-> "scaling", kids |-> kids]

\* the children of a value axis: without c:scaling, with an empty one, with an
\* orientation (minMax, maxMin), with c:max before or without an orientation,
\* and without c:axId
AxisChildren ==
    { <<Elem("axId"), Elem("delete")>>,
      <<Elem("axId"), Scaling(<<>>), Elem("delete")>>,
      <<Elem("axId"), Scaling(<<Kid("orientation", "minMax")>>), Elem("delete")>>,
      <<Elem("axId"), Scaling(<<Kid("orientation", "maxMin")>>)>>,
      <<Elem("axId"), Scaling(<<Kid("max", "10")>>)>>,
      <<Elem("axId"), Scaling(<<Kid("orientation", "minMax"), Kid("max", "10")>>)>>,
      <<Elem("delete"), Elem("axId")>>,
      <<Elem("delete")>> }

CatAx == [tag |-> "catAx",
          children |-> <<Elem("axId"), Scaling(<<Kid("orientation", "minMax")>>)>>]

ValAx(children) == [tag |-> "valAx", children |-> children]

\* the axes of a chart: none, a category and a value axis in either order, and
\* a second value axis
AxesSamples ==
    { <<>>, <<CatAx>> } \cup
    { <<CatAx, ValAx(c)>> : c \in AxisChildren } \cup
    { <<ValAx(c), CatAx>> : c \in AxisChildren } \cup
    { <<CatAx, ValAx(c), ValAx(<<Elem("axId"), Scaling(<<Kid("orientation", "minMax")>>)>>)>> :
        c \in AxisChildren }

Ser(idx, name, cats) == [idx |-> idx, name |-> name, cats |-> cats]

\* the texts of a chart: none; a title with run properties and two series, the
\* second without a cached name; a title and a series without c:idx
ChartTexts ==
    { [title |-> <<>>, titleRPr |-> FALSE, titleLang |-> "none", series |-> <<>>],
      [title |-> <<"Sales">>, titleRPr |-> TRUE, titleLang |-> "en-US",
       series |-> << Ser(<<"0">>, <<"Q1">>, <<"A", "B">>),
                     Ser(<<"1">>, <<>>, <<"A", "B">>) >>],
      [title |-> <<"Sales">>, titleRPr |-> FALSE, titleLang |-> "none",
       series |-> << Ser(<<>>, <<"Q1">>, <<"A">>) >>] }

ChartDocs ==
    { [title |-> t.title, titleRPr |-> t.titleRPr, titleLang |-> t.titleLang,
       series |-> t.series, plots |-> pl, axes |-> ax] :
        t \in ChartTexts, pl \in PlotSamples, ax \in AxesSamples }

\* what a chart translator returns for a record: the mock's translation, the
\* record as it was, or an empty record (translate_with_openai_chart with no
\* translated element)
ChartTranslations(content) ==
    { translate_mock_chart(content), content,
      [chart_title |-> <<>>, series |-> <<>>, categories |-> <<>>] }

InitChart ==
    /\ NoMirror
    /\ pres_xml = <<>>
    /\ flip_connectors = TRUE
    /\ kind = "chart"
    /\ slide_xml = <<>>
    /\ content_json = <<>>
    /\ translated_json = <<>>
    /\ rtl_xml = <<>>
    /\ final_xml = <<>>
    /\ pc = "none"
    /\ stats = <<>>
    /\ NoJob
    /\ chart \in { [xml |-> <<c>>, content |-> <<>>, translated |-> <<>>,
                    first |-> <<>>, final |-> <<>>, runs |-> 0] : c \in ChartDocs }
    /\ translator = "mock"
    /\ NoSession

\* _translate_all_charts, lines 393-408: extract_chart_text, save_json, the
\* translator, save_json
TranslateChart ==
    /\ chart.xml # <<>> /\ chart.content = <<>>
    /\ LET content == extract_chart_text(chart.xml[1])
       IN  \E translated \in ChartTranslations(content) :
              chart' = [chart EXCEPT !.content = <<content>>,
                                     !.translated = <<translated>>]
    /\ UNCHANGED <<sessionVars, translator, mx, mout, pipeVars>>

\* _translate_all_charts, lines 410-415: inject_chart_text on the chart XML; run
\* again, it is given the file the previous run wrote
InjectChart ==
    /\ chart.translated # <<>>
    /\ chart.runs < MaxChartRuns
    /\ LET input == IF chart.runs = 0 THEN chart.xml[1] ELSE chart.final[1]
           output == inject_chart_text(input, chart.translated[1])
       IN  chart' = [chart EXCEPT
                        !.final = <<output>>,
                        !.first = IF chart.runs = 0 THEN <<output>> ELSE chart.first,
                        !.runs = chart.runs + 1]
    /\ UNCHANGED <<sessionVars, translator, mx, mout, pipeVars>>

NextChart == TranslateChart \/ InjectChart

SpecChart == InitChart /\ [][NextChart]_vars

-----------------------------------------------------------------------------
(* Specification SpecTranslate: the pipeline of one part with step 3 taken  *)
(* by the translator the run was started with.                              *)

Translators == {"openai", "anthropic", "mock"}

\* translate_mock (main.py): a deep copy of the records with the text of every
\* record and of every paragraph replaced
translate_mock(content) ==
    [k \in 1..Len(content) |->
        [content[k] EXCEPT
            !.text = <<"M">>,
            !.paragraphs = [i \in 1..Len(content[k].paragraphs) |->
                               [content[k].paragraphs[i] EXCEPT !.text = TrText(i)]]]]

\* the ids of a sequence of records
IdsOf(records) == { records[k].id : k \in 1..Len(records) }

\* TextTranslator._verify_ids: no id of the original is missing
verify_ids(original, translated) == IdsOf(original) \subseteq IdsOf(translated)

\* TextTranslator.translate_to_dict: the records built from the elements of
\* the LLM's reply (_merge_with_original), which come with paragraphs
OpenAIOutputs ==
    { TrRecord(99, o99) \o TrRecord(2, o2) \o TrRecord(3, o3) :
        o2 \in 0..MaxNewParas, o3 \in 0..MaxNewParas, o99 \in 0..1 }

InitTranslate ==
    /\ NoMirror
    /\ pres_xml = <<>>
    /\ flip_connectors = TRUE
    /\ kind \in {"slide", "master", "layout"}
    /\ slide_xml \in { <<[spTree |-> TRUE, shapes |-> t]>> : t \in PipeTrees }
    /\ content_json = <<>>
    /\ translated_json = <<>>
    /\ rtl_xml = <<>>
    /\ final_xml = <<>>
    /\ pc = "xml"
    /\ stats = <<>>
    /\ NoJob
    /\ chart = [xml |-> <<>>, content |-> <<>>, translated |-> <<>>, first |-> <<>>,
                final |-> <<>>, runs |-> 0]
    /\ translator \in Translators
    /\ NoSession

\* translate_mock(content_json)
TranslateMock ==
    /\ pc = "content" /\ has_elements
    /\ translator = "mock"
    /\ translated_json' = translate_mock(content_json)
    /\ pc' = "translated"
    /\ UNCHANGED <<sessionVars, translator, chart, mx, mout, pres_xml, flip_connectors, kind,
                   slide_xml, content_json, rtl_xml, final_xml, stats, job>>

\* translate_with_openai(content_json): TextTranslator.translate returns the
\* merged reply when _verify_ids finds no original id missing
TranslateOpenAI ==
    /\ pc = "content" /\ has_elements
    /\ translator = "openai"
    /\ \E reply \in OpenAIOutputs :
          /\ verify_ids(content_json, reply)
          /\ translated_json' = reply
    /\ pc' = "translated"
    /\ UNCHANGED <<sessionVars, translator, chart, mx, mout, pres_xml, flip_connectors, kind,
                   slide_xml, content_json, rtl_xml, final_xml, stats, job>>

\* translate_with_openai raises TranslationError: _verify_ids found an original
\* id missing in the reply
TranslateOpenAIRaises ==
    /\ pc = "content" /\ has_elements
    /\ translator = "openai"
    /\ \E reply \in OpenAIOutputs : ~verify_ids(content_json, reply)
    /\ pc' = "failed"
    /\ UNCHANGED <<sessionVars, translator, chart, mx, mout, pres_xml, flip_connectors, kind,
                   slide_xml, content_json, translated_json, rtl_xml, final_xml,
                   stats, job>>

\* translate_with_anthropic(content_json): json.loads of the reply, unchecked
TranslateAnthropic ==
    /\ pc = "content" /\ has_elements
    /\ translator = "anthropic"
    /\ translated_json' \in TranslatorOutputs
    /\ pc' = "translated"
    /\ UNCHANGED <<sessionVars, translator, chart, mx, mout, pres_xml, flip_connectors, kind,
                   slide_xml, content_json, rtl_xml, final_xml, stats, job>>

NextTranslate ==
    \/ ExtractContent
    \/ TranslateMock
    \/ TranslateOpenAI
    \/ TranslateOpenAIRaises
    \/ TranslateAnthropic
    \/ Transform
    \/ Inject
    \/ UseRtlAsIs

SpecTranslate == InitTranslate /\ [][NextTranslate]_vars

-----------------------------------------------------------------------------
(* Specification SpecRoundTrip: the records extracted from a part injected  *)
(* unchanged into the same part.                                            *)

InitRoundTrip ==
    /\ NoMirror
    /\ pres_xml = <<>>
    /\ flip_connectors = TRUE
    /\ kind = "slide"
    /\ slide_xml \in { <<[spTree |-> TRUE, shapes |-> t]>> : t \in PipeTrees }
    /\ content_json = <<>>
    /\ translated_json = <<>>
    /\ rtl_xml = <<>>
    /\ final_xml = <<>>
    /\ pc = "xml"
    /\ stats = <<>>
    /\ NoJob
    /\ NoChart
    /\ NoSession

\* inject_translated_content(slide_xml, content_json, final_xml)
InjectExtracted ==
    /\ pc = "content"
    /\ final_xml' = <<inject_translated_content(slide_xml[1], content_json)>>
    /\ pc' = "final"
    /\ UNCHANGED <<sessionVars, translator, chart, mx, mout, pres_xml, flip_connectors, kind,
                   slide_xml, content_json, translated_json, rtl_xml, stats, job>>

NextRoundTrip == ExtractContent \/ InjectExtracted

SpecRoundTrip == InitRoundTrip /\ [][NextRoundTrip]_vars

-----------------------------------------------------------------------------
(* Specification SpecExtract: extract_content_for_llm on one part.          *)

PlaceholderTypes ==
    {"title", "ctrTitle", "subTitle", "body", "obj", "dt", "ftr", "sldNum", "pic", "none"}

\* a text shape, a group holding a text shape, and a third text shape, with
\* vertical positions in and out of document order
ExtractTree(c) ==
    << [DefaultNode EXCEPT
          !.id = 2, !.ph = c.phA, !.xfrm = c.xfA, !.x = 0, !.y = c.yA,
          !.cx = 3000000, !.cy = 1000000, !.prst = "rect",
          !.txBody = TextVariant(c.textA)],
       [DefaultNode EXCEPT
          !.kind = "grpSp", !.id = 4, !.name = <<"G">>, !.x = 0, !.y = 0,
          !.cx = 12192000, !.cy = 6858000, !.chOffDecl = TRUE, !.chExtDecl = TRUE,
          !.chOff = 0, !.chExt = 12192000,
          !.children = << [DefaultNode EXCEPT
                             !.id = 3, !.ph = c.phB, !.x = 500000, !.y = 500000,
                             !.cx = 500000, !.cy = 500000,
                             !.txBody = TextVariant(c.textB)] >>],
       [DefaultNode EXCEPT
          !.id = 7, !.ph = "body", !.x = 0, !.y = c.yC, !.cx = 1000000,
          !.cy = 1000000, !.txBody = c.bodyC] >>

ExtractTrees ==
    { ExtractTree(c) :
        c \in [phA : PlaceholderTypes, xfA : BOOLEAN, yA : {100000, 2000000},
               textA : {"run", "blank", "fld"},
               phB : {"subTitle", "none"}, textB : {"none", "run"},
               yC : {100000, 3000000},
               bodyC : {<<>>, <<BodyOf(4, 1)>>, <<BodyOf(1, 2)>>}] }

InitExtract ==
    /\ NoMirror
    /\ pres_xml = <<>>
    /\ flip_connectors = TRUE
    /\ kind = "slide"
    /\ slide_xml \in { <<[spTree |-> TRUE, shapes |-> t]>> : t \in ExtractTrees }
    /\ content_json = <<>>
    /\ translated_json = <<>>
    /\ rtl_xml = <<>>
    /\ final_xml = <<>>
    /\ pc = "xml"
    /\ stats = <<>>
    /\ NoJob
    /\ NoChart
    /\ NoSession

NextExtract == ExtractContent

SpecExtract == InitExtract /\ [][NextExtract]_vars

-----------------------------------------------------------------------------
(* Specification SpecRun: one translate_slides run over the masters, the    *)
(* layouts, the charts and the requested slides of a presentation.         *)

\* a slide, master or layout part: with or without p:spTree
XmlPart(k, has_tree) ==
    [kind |-> k, broken |-> FALSE,
     doc |-> [spTree |-> has_tree, shapes |-> <<SibShape(2, 500000)>>]]

\* a chart part: its XML parses or not
ChartPart(is_broken) ==
    [kind |-> "chart", broken |-> is_broken, doc |-> [spTree |-> FALSE, shapes |-> <<>>]]

\* zero or one part of a kind
OptPart(k) == {<<>>} \cup { <<XmlPart(k, t)>> : t \in BOOLEAN }

\* the requested slides
SlideLists ==
    UNION { [1..n -> { XmlPart("slide", t) : t \in BOOLEAN }] : n \in 1..MaxSlides }

\* the parts in the order translate_slides handles them: masters, layouts,
\* charts, slides
PartLists ==
    { m \o l \o c \o sl :
        m \in OptPart("master"), l \in OptPart("layout"),
        c \in {<<>>} \cup { <<ChartPart(b)>> : b \in BOOLEAN },
        sl \in SlideLists }

InitRun ==
    /\ NoMirror
    /\ pres_xml = <<>>
    /\ flip_connectors = TRUE
    /\ kind = "slide"
    /\ slide_xml = <<>>
    /\ content_json = <<>>
    /\ translated_json = <<>>
    /\ rtl_xml = <<>>
    /\ final_xml = <<>>
    /\ pc = "none"
    /\ stats = <<>>
    /\ job \in { [parts |-> ps, next |-> 1, replacements |-> {}, status |-> "running"] :
                  ps \in PartLists }
    /\ NoChart
    /\ NoSession

\* processing the part raises: transform() raises ValueError without p:spTree
\* (visual_engine.py:197-199); etree.parse raises on a chart that does not parse
part_raises(part) ==
    IF part.kind = "chart"
    THEN part.broken
    ELSE transform(engine_init(pres_xml, flip_connectors), part.doc) = <<>>

\* one iteration of a loop of _transform_masters_and_layouts, of
\* _translate_all_charts or of translate_slides: the part's final file is recorded
ProcessPart ==
    /\ job.status = "running"
    /\ job.next <= Len(job.parts)
    /\ ~part_raises(job.parts[job.next])
    /\ job' = [job EXCEPT !.replacements = @ \cup {job.next}, !.next = @ + 1]
    /\ UNCHANGED <<sessionVars, translator, chart, mx, mout, pipeVarsOfPart>>

\* the part raises: no loop has a try, the exception leaves translate_slides and
\* main() prints it and exits with status 1
FailPart ==
    /\ job.status = "running"
    /\ job.next <= Len(job.parts)
    /\ part_raises(job.parts[job.next])
    /\ job' = [job EXCEPT !.status = "failed"]
    /\ UNCHANGED <<sessionVars, translator, chart, mx, mout, pipeVarsOfPart>>

\* every loop is over: PPTXRebuilder.inject_multiple_files(replacements, output)
Rebuild ==
    /\ job.status = "running"
    /\ job.next > Len(job.parts)
    /\ job' = [job EXCEPT !.status = "rebuilt"]
    /\ UNCHANGED <<sessionVars, translator, chart, mx, mout, pipeVarsOfPart>>

NextRun == ProcessPart \/ FailPart \/ Rebuild

SpecRun == InitRun /\ [][NextRun]_vars

-----------------------------------------------------------------------------
(* Specification SpecSession: translate_slides called again and again on    *)
(* one SlideTranslator.  The input archive has one master, one layout and   *)
(* two slides; the charts are left out.                                     *)

Part(stem, index) == [stem |-> stem, index |-> index]

\* the parts of input_pptx
ArchiveParts ==
    { Part("slideMaster", 1), Part("slideLayout", 1), Part("slide", 1), Part("slide", 2) }

\* PPTXXMLExtractor.get_slide_master_count / get_slide_layout_count / get_slide_count
part_count(stem) == Cardinality({ p \in ArchiveParts : p.stem = stem })

\* PPTXXMLExtractor.extract_raw: the XML of a part of input_pptx.  Every part
\* has an arrow; the master and the slides have a title, the layout has no text.
extract_raw(part) ==
    [spTree |-> TRUE,
     shapes |->
        << [DefaultNode EXCEPT
              !.id = 7, !.name = NameArrow, !.prst = "rightArrow",
              !.x = 500000 * part.index, !.y = 3000000, !.cx = 1000000, !.cy = 500000] >>
        \o (IF part.stem = "slideLayout" THEN <<>>
            ELSE << [DefaultNode EXCEPT
                       !.id = 2, !.ph = "title", !.x = 1000000, !.y = 200000,
                       !.cx = 3000000, !.cy = 1000000, !.prst = "rect",
                       !.txBody = <<BodyOf(1, part.index)>>] >>)]

\* the sldSz cx of ppt/presentation.xml of input_pptx
extract_presentation_xml == <<9144000>>

\* the file names without the index of the part
work_file_unindexed(part, suffix) == [stem |-> part.stem, index |-> 0, suffix |-> suffix]

\* os.path.join(self.work_dir, f"{stem}{index}{suffix}")
work_file(part, suffix) == [stem |-> part.stem, index |-> part.index, suffix |-> suffix]

\* self.pres_xml
pres_xml_path == [stem |-> "presentation", index |-> 0, suffix |-> ".xml"]

Suffixes == {".xml", "_content.json", "_translated.json", "_rtl.xml", "_final.xml"}

WorkFiles == { work_file(p, sfx) : p \in ArchiveParts, sfx \in Suffixes } \cup {pres_xml_path}

\* the file the engine is given as slide_xml_path: the "_rtl.xml" of an earlier
\* pass when there is one
engine_input_latest(files, part) ==
    IF files[work_file(part, "_rtl.xml")] # <<>>
    THEN files[work_file(part, "_rtl.xml")]
    ELSE files[work_file(part, ".xml")]

\* the file the engine is given as slide_xml_path: the part as extracted
engine_input(files, part) == files[work_file(part, ".xml")]

\* masters and layouts are translated and injected only when they have text
part_has_elements(part, content) == part.stem = "slide" \/ content # <<>>

\* steps 1 and 2 done: the part extracted, its records saved when it has text
files_with_content(files, part, xml, content) ==
    [files |-> [files EXCEPT
                   ![work_file(part, ".xml")] = <<xml>>,
                   ![work_file(part, "_content.json")] =
                       IF part_has_elements(part, content) THEN <<content>> ELSE @],
     has |-> part_has_elements(part, content)]

extract_steps_on(files, part, xml) ==
    files_with_content(files, part, xml, extract_content_for_llm(xml))

\* _process_single_slide, and one iteration of a loop of
\* _transform_masters_and_layouts, up to the translation: the files written and
\* whether the part has text
extract_steps(files, part) == extract_steps_on(files, part, extract_raw(part))

\* steps 3 to 5 done: the translated records saved, the RTL XML saved, the
\* records injected into it; path is the file recorded for the part (final_xml,
\* or the RTL XML as it is for a master or layout without text)
files_with_final(f2, part, has, translated, rtl) ==
    [files |-> [f2 EXCEPT
                   ![work_file(part, "_translated.json")] = IF has THEN <<translated>> ELSE @,
                   ![work_file(part, "_rtl.xml")] = rtl,
                   ![work_file(part, "_final.xml")] =
                       IF has THEN <<inject_translated_content(rtl[1], translated)>> ELSE @],
     path |-> IF has THEN work_file(part, "_final.xml") ELSE work_file(part, "_rtl.xml")]

translate_transform_inject(f2, part, content) ==
    files_with_final(f2, part, part_has_elements(part, content), translate_mock(content),
                     transform(engine_init(f2[pres_xml_path], TRUE),
                               engine_input(f2, part)[1]))

process_part_on(files, part, xml, content) ==
    translate_transform_inject(files_with_content(files, part, xml, content).files,
                               part, content)

process_part_from(files, part, xml) ==
    process_part_on(files, part, xml, extract_content_for_llm(xml))

\* _process_single_slide, and one iteration of a loop of
\* _transform_masters_and_layouts: [files, path]
process_part(files, part) == process_part_from(files, part, extract_raw(part))

\* the slide_indices of a call: in range, out of range (3), repeated
IndexLists == UNION { [1..n -> 1..(part_count("slide") + 1)] : n \in 0..MaxSlides }

\* SlideTranslator.__init__
InitSession ==
    /\ NoMirror
    /\ pres_xml = <<>>
    /\ flip_connectors = TRUE
    /\ kind = "slide"
    /\ slide_xml = <<>>
    /\ content_json = <<>>
    /\ translated_json = <<>>
    /\ rtl_xml = <<>>
    /\ final_xml = <<>>
    /\ pc = "none"
    /\ stats = <<>>
    /\ NoJob
    /\ chart = [xml |-> <<>>, content |-> <<>>, translated |-> <<>>, first |-> <<>>,
                final |-> <<>>, runs |-> 0]
    /\ translator \in {"mock", "openai"}
    /\ work_dir = [f \in WorkFiles |-> <<>>]
    /\ session = [calls |-> 0, phase |-> "idle", pos |-> 1, slide_indices |-> <<>>,
                  masters_transformed |-> FALSE,
                  transformed_masters |-> {}, transformed_layouts |-> {},
                  final_xmls |-> {}, output |-> <<>>]
    /\ pipelines = <<>>

\* translate_slides up to the first loop: presentation.xml extracted,
\* _transform_masters_and_layouts returning at once when it has run already
StartCall ==
    /\ session.phase = "idle"
    /\ session.calls < MaxCalls
    /\ \E indices \in IndexLists :
          session' = [session EXCEPT
                         !.calls = @ + 1,
                         !.slide_indices = indices,
                         !.final_xmls = {},
                         !.pos = 1,
                         !.phase = IF session.masters_transformed
                                   THEN "slides" ELSE "masters"]
    /\ work_dir' = [work_dir EXCEPT ![pres_xml_path] = extract_presentation_xml]
    /\ UNCHANGED <<pipelines, translator, chart, mx, mout, pipeVars>>

\* the part the running loop is at
current_part ==
    IF session.phase = "masters" THEN Part("slideMaster", session.pos)
    ELSE IF session.phase = "layouts" THEN Part("slideLayout", session.pos)
    ELSE Part("slide", session.slide_indices[session.pos])

\* one iteration of the loop over the masters
ProcessMaster ==
    /\ session.phase = "masters"
    /\ \E part \in {current_part} : \E done \in {process_part(work_dir, part)} :
           /\ work_dir' = done.files
           /\ session' = [session EXCEPT
                  !.transformed_masters =
                      { e \in @ : e[1] # part.index } \cup {<<part.index, done.path>>},
                  !.pos = IF session.pos < part_count("slideMaster") THEN @ + 1 ELSE 1,
                  !.phase = IF session.pos < part_count("slideMaster") THEN @ ELSE "layouts"]
    /\ UNCHANGED <<pipelines, translator, chart, mx, mout, pipeVars>>

\* one iteration of the loop over the layouts; after the last one
\* _masters_transformed is set
ProcessLayout ==
    /\ session.phase = "layouts"
    /\ \E part \in {current_part} : \E done \in {process_part(work_dir, part)} :
       \E last \in {session.pos >= part_count("slideLayout")} :
           /\ work_dir' = done.files
           /\ session' = [session EXCEPT
                  !.transformed_layouts =
                      { e \in @ : e[1] # part.index } \cup {<<part.index, done.path>>},
                  !.pos = IF last THEN 1 ELSE @ + 1,
                  !.phase = IF last THEN "slides" ELSE @,
                  !.masters_transformed = last]
    /\ UNCHANGED <<pipelines, translator, chart, mx, mout, pipeVars>>

\* one iteration of the loop over slide_indices with an index in range
ProcessSlide ==
    /\ session.phase = "slides"
    /\ session.pos <= Len(session.slide_indices)
    /\ session.slide_indices[session.pos] \in 1..part_count("slide")
    /\ \E part \in {current_part} : \E done \in {process_part(work_dir, part)} :
           /\ work_dir' = done.files
           /\ session' = [session EXCEPT
                  !.final_xmls =
                      { e \in @ : e[1] # part.index } \cup {<<part.index, done.path>>},
                  !.pos = @ + 1]
    /\ UNCHANGED <<pipelines, translator, chart, mx, mout, pipeVars>>

\* an index out of range: a warning, the slide is skipped
SkipSlide ==
    /\ session.phase = "slides"
    /\ session.pos <= Len(session.slide_indices)
    /\ session.slide_indices[session.pos] \notin 1..part_count("slide")
    /\ session' = [session EXCEPT !.pos = @ + 1]
    /\ UNCHANGED <<work_dir, pipelines, translator, chart, mx, mout, pipeVars>>

\* translate_with_openai raises TranslationError on the part the loop is at:
\* nothing catches it, the exception leaves translate_slides
PartRaises ==
    /\ translator = "openai"
    /\ \/ session.phase \in {"masters", "layouts"}
       \/ /\ session.phase = "slides"
          /\ session.pos <= Len(session.slide_indices)
          /\ session.slide_indices[session.pos] \in 1..part_count("slide")
    /\ \E raised \in {extract_steps(work_dir, current_part)} :
          /\ raised.has
          /\ work_dir' = raised.files
    /\ session' = [session EXCEPT !.phase = "idle"]
    /\ UNCHANGED <<pipelines, translator, chart, mx, mout, pipeVars>>

\* the replacements dict: internal part -> local file
replacements_of(s) ==
    { <<Part("slide", e[1]), e[2]>> : e \in s.final_xmls }
        \cup { <<Part("slideMaster", e[1]), e[2]>> : e \in s.transformed_masters }
        \cup { <<Part("slideLayout", e[1]), e[2]>> : e \in s.transformed_layouts }

\* PPTXRebuilder(input_pptx).inject_multiple_files(replacements, output_pptx):
\* every part of the input archive, replaced by its local file when it has one
RebuildPptx ==
    /\ session.phase = "slides"
    /\ session.pos > Len(session.slide_indices)
    /\ LET replacements == replacements_of(session)
           replaced == { e[1] : e \in replacements }
           local(p) == (CHOOSE e \in replacements : e[1] = p)[2]
       IN  session' = [session EXCEPT
               !.phase = "idle",
               !.output = <<[replaced |-> replaced,
                             parts |-> [p \in ArchiveParts |->
                                          IF p \in replaced
                                          THEN work_dir[local(p)][1]
                                          ELSE extract_raw(p)]]>>]
    /\ UNCHANGED <<work_dir, pipelines, translator, chart, mx, mout, pipeVars>>

NextSession ==
    \/ StartCall
    \/ ProcessMaster
    \/ ProcessLayout
    \/ ProcessSlide
    \/ SkipSlide
    \/ PartRaises
    \/ RebuildPptx

SpecSession == InitSession /\ [][NextSession]_vars

-----------------------------------------------------------------------------
(* Specification SpecParts: the pipelines of two different parts of one     *)
(* SlideTranslator, their steps taken in any order.  A pipeline has its     *)
(* position and its local variables content_json and translated_json; the   *)
(* files are those of the one work_dir.  read and written record which      *)
(* pipeline has read and written which file.                                *)

PipelineIds == {1, 2}

PartPairs == { pair \in ArchiveParts \X ArchiveParts : pair[1] # pair[2] }

\* the work_dir before the first part: presentation.xml extracted
FreshWorkDir ==
    [f \in WorkFiles |-> IF f = pres_xml_path THEN extract_presentation_xml ELSE <<>>]

InitParts ==
    /\ NoMirror
    /\ pres_xml = <<>>
    /\ flip_connectors = TRUE
    /\ kind = "slide"
    /\ slide_xml = <<>>
    /\ content_json = <<>>
    /\ translated_json = <<>>
    /\ rtl_xml = <<>>
    /\ final_xml = <<>>
    /\ pc = "none"
    /\ stats = <<>>
    /\ NoJob
    /\ chart = [xml |-> <<>>, content |-> <<>>, translated |-> <<>>, first |-> <<>>,
                final |-> <<>>, runs |-> 0]
    /\ translator = "mock"
    /\ session = <<>>
    /\ work_dir = FreshWorkDir
    /\ pipelines \in { [parts |-> pair,
                        pc |-> <<"start", "start">>,
                        content_json |-> << <<>>, <<>> >>,
                        translated_json |-> << <<>>, <<>> >>,
                        read |-> {}, written |-> {}, log |-> <<>>] :
                       pair \in PartPairs }

\* the pipeline has text to translate
pipeline_has_elements(i) ==
    part_has_elements(pipelines.parts[i], pipelines.content_json[i])

\* Step 1: extractor.extract_slide_xml(index, slide_xml)
StepExtract ==
    \E i \in PipelineIds :
        LET part == pipelines.parts[i]
        IN  /\ pipelines.pc[i] = "start"
            /\ work_dir' = [work_dir EXCEPT ![work_file(part, ".xml")] = <<extract_raw(part)>>]
            /\ pipelines' = [pipelines EXCEPT
                   !.pc[i] = "xml",
                   !.written = @ \cup {<<i, work_file(part, ".xml")>>},
                   !.log = Append(@, i)]
            /\ UNCHANGED <<session, translator, chart, mx, mout, pipeVars>>

\* Step 2: content_json = extract_content_for_llm(slide_xml); save_json
StepContent ==
    \E i \in PipelineIds :
        LET part == pipelines.parts[i]
            content == extract_content_for_llm(work_dir[work_file(part, ".xml")][1])
            has == part_has_elements(part, content)
        IN  /\ pipelines.pc[i] = "xml"
            /\ work_dir' = [work_dir EXCEPT
                   ![work_file(part, "_content.json")] = IF has THEN <<content>> ELSE @]
            /\ pipelines' = [pipelines EXCEPT
                   !.pc[i] = "content",
                   !.content_json[i] = content,
                   !.read = @ \cup {<<i, work_file(part, ".xml")>>},
                   !.written = @ \cup (IF has THEN {<<i, work_file(part, "_content.json")>>}
                                       ELSE {}),
                   !.log = Append(@, i)]
            /\ UNCHANGED <<session, translator, chart, mx, mout, pipeVars>>

\* Step 3: translated_json = translate_mock(content_json); save_json
StepTranslate ==
    \E i \in PipelineIds :
        LET part == pipelines.parts[i]
            translated == translate_mock(pipelines.content_json[i])
        IN  /\ pipelines.pc[i] = "content"
            /\ pipeline_has_elements(i)
            /\ work_dir' = [work_dir EXCEPT
                   ![work_file(part, "_translated.json")] = <<translated>>]
            /\ pipelines' = [pipelines EXCEPT
                   !.pc[i] = "translated",
                   !.translated_json[i] = translated,
                   !.written = @ \cup {<<i, work_file(part, "_translated.json")>>},
                   !.log = Append(@, i)]
            /\ UNCHANGED <<session, translator, chart, mx, mout, pipeVars>>

\* Step 4: RTLVisualEngine(pres_xml, slide_xml); transform(); save(rtl_xml)
StepTransform ==
    \E i \in PipelineIds :
        LET part == pipelines.parts[i]
        IN  /\ \/ pipelines.pc[i] = "translated"
               \/ pipelines.pc[i] = "content" /\ ~pipeline_has_elements(i)
            /\ work_dir' = [work_dir EXCEPT
                   ![work_file(part, "_rtl.xml")] =
                       transform(engine_init(work_dir[pres_xml_path], TRUE),
                                 engine_input(work_dir, part)[1])]
            /\ pipelines' = [pipelines EXCEPT
                   !.pc[i] = "rtl",
                   !.read = @ \cup {<<i, pres_xml_path>>, <<i, work_file(part, ".xml")>>},
                   !.written = @ \cup {<<i, work_file(part, "_rtl.xml")>>},
                   !.log = Append(@, i)]
            /\ UNCHANGED <<session, translator, chart, mx, mout, pipeVars>>

\* Step 5: inject_translated_content(rtl_xml, translated_json, final_xml)
StepInject ==
    \E i \in PipelineIds :
        LET part == pipelines.parts[i]
        IN  /\ pipelines.pc[i] = "rtl"
            /\ pipeline_has_elements(i)
            /\ work_dir' = [work_dir EXCEPT
                   ![work_file(part, "_final.xml")] =
                       <<inject_translated_content(work_dir[work_file(part, "_rtl.xml")][1],
                                                   pipelines.translated_json[i])>>]
            /\ pipelines' = [pipelines EXCEPT
                   !.pc[i] = "final",
                   !.read = @ \cup {<<i, work_file(part, "_rtl.xml")>>},
                   !.written = @ \cup {<<i, work_file(part, "_final.xml")>>},
                   !.log = Append(@, i)]
            /\ UNCHANGED <<session, translator, chart, mx, mout, pipeVars>>

\* a master or layout without text: the RTL XML is recorded as it is
StepUseRtl ==
    \E i \in PipelineIds :
        /\ pipelines.pc[i] = "rtl"
        /\ ~pipeline_has_elements(i)
        /\ pipelines' = [pipelines EXCEPT !.pc[i] = "final", !.log = Append(@, i)]
        /\ UNCHANGED <<work_dir, session, translator, chart, mx, mout, pipeVars>>

NextParts ==
    \/ StepExtract
    \/ StepContent
    \/ StepTranslate
    \/ StepTransform
    \/ StepInject
    \/ StepUseRtl

SpecParts == InitParts /\ [][NextParts]_vars

\* C1: mirror_x returns space.offset + (space.width - ((x - space.offset) + width)),
\* i.e. the mirrored right edge lies as far from the right end of the space as the
\* left edge lay from its left end; in the root space (12,192,000, offset 0) a shape
\* at x = 0 of width 3,000,000 goes to x = 9,192,000.
C1_MirrorFormula ==
    Len(mout) >= 1 =>
        /\ mout[1] = mx.space_offset
                       + (mx.space_width - ((mx.x - mx.space_offset) + mx.width))
        /\ (mx.space_offset + mx.space_width) - (mout[1] + mx.width)
             = mx.x - mx.space_offset
        /\ (mx = [x |-> 0, width |-> 3000000, space_width |-> 12192000,
                  space_offset |-> 0]) => mout[1] = 9192000

\* C1 witness: Scenario A has been computed.
C1_Witness ==
    /\ mx = [x |-> 0, width |-> 3000000, space_width |-> 12192000, space_offset |-> 0]
    /\ Len(mout) >= 1
    /\ mout[1] = 9192000

\* C2: mirror_x is an involution: mirroring the mirrored x with the same width in
\* the same space gives back the original x.
C2_Involution ==
    Len(mout) >= 2 => mout[2] = mx.x

\* C2 witness: a second application has restored an x that the first one moved,
\* in a space with a non-zero offset.
C2_Witness ==
    /\ Len(mout) >= 2
    /\ mx.space_offset # 0
    /\ mout[1] # mx.x
    /\ mout[2] = mx.x

-----------------------------------------------------------------------------
(* Reading a tree: the paths (index sequences) of its nodes *)

RECURSIVE PathsOf(_)
PathsOf(container) ==
    UNION { {<<i>>} \cup { <<i>> \o q : q \in PathsOf(container[i].children) } :
            i \in 1..Len(container) }

RECURSIVE NodeAt(_, _)
NodeAt(container, path) ==
    IF Len(path) = 1
    THEN container[path[1]]
    ELSE NodeAt(container[path[1]].children, Tail(path))

ParentPath(path) == SubSeq(path, 1, Len(path) - 1)

\* every enclosing node of the path is a group that has its own a:off and a:ext,
\* with integer attributes
UnderPlacedGroups(container, path) ==
    \A k \in 1..(Len(path) - 1) :
        LET a == NodeAt(container, SubSeq(path, 1, k))
        IN  a.kind = "grpSp" /\ a.xfrm /\ a.bad = "none"

\* every enclosing node of the path is a group with integer attributes, with
\* or without its own a:off and a:ext
UnderGroups(container, path) ==
    \A k \in 1..(Len(path) - 1) :
        LET a == NodeAt(container, SubSeq(path, 1, k))
        IN  a.kind = "grpSp" /\ a.bad = "none"

\* the shapes of the input part and of the transformed part
InShapes == slide_xml[1].shapes
RtlShapes == rtl_xml[1].shapes
FinalShapes == final_xml[1].shapes

PageWidth == IF pres_xml = <<>> THEN DEFAULT_SLIDE_WIDTH ELSE pres_xml[1]

\* the walker handles the node kind (connectors only when flip_connectors is on)
\* and the node's attributes are integers
WalkedKind(node) == (node.kind # "cxnSp" \/ flip_connectors) /\ node.bad = "none"

\* C3: every group that declares a:chOff and a:chExt, at any depth, has its own
\* x mirrored in the enclosing space (the page, or the declared child space of
\* its parent group), and every direct child with a box has its x mirrored in
\* {offset: chOff, width: chExt}: new x + old x + width = 2*chOff + chExt,
\* whatever the group's own x and the enclosing space are.
C3_EveryGroupChildSpace ==
    pc = "rtl" =>
        \A p \in PathsOf(InShapes) :
            LET g == NodeAt(InShapes, p)
                g2 == NodeAt(RtlShapes, p)
            IN  (/\ g.kind = "grpSp" /\ g.xfrm /\ g.chOffDecl /\ g.chExtDecl
                 /\ g.bad = "none" /\ UnderGroups(InShapes, p))
                =>
                /\ Len(p) = 1 => g2.x + g.x + g.cx = PageWidth
                /\ Len(p) > 1 =>
                      LET par == NodeAt(InShapes, ParentPath(p))
                      IN  (par.xfrm /\ par.chOffDecl /\ par.chExtDecl)
                            => g2.x + g.x + g.cx = 2 * par.chOff + par.chExt
                /\ \A i \in 1..Len(g.children) :
                      LET c == g.children[i]
                          c2 == g2.children[i]
                      IN  (c.xfrm /\ WalkedKind(c))
                            => c2.x + c.x + c.cx = 2 * g.chOff + g.chExt

\* the part of C3 the code keeps: the same, for the groups the walker reaches,
\* those whose enclosing groups all have their own a:off and a:ext
C3_GroupChildSpace ==
    pc = "rtl" =>
        \A p \in PathsOf(InShapes) :
            LET g == NodeAt(InShapes, p)
                g2 == NodeAt(RtlShapes, p)
            IN  (/\ g.kind = "grpSp" /\ g.xfrm /\ g.chOffDecl /\ g.chExtDecl
                 /\ g.bad = "none" /\ UnderPlacedGroups(InShapes, p))
                =>
                /\ Len(p) = 1 => g2.x + g.x + g.cx = PageWidth
                /\ Len(p) > 1 =>
                      LET par == NodeAt(InShapes, ParentPath(p))
                      IN  (par.chOffDecl /\ par.chExtDecl)
                            => g2.x + g.x + g.cx = 2 * par.chOff + par.chExt
                /\ \A i \in 1..Len(g.children) :
                      LET c == g.children[i]
                          c2 == g2.children[i]
                      IN  (c.xfrm /\ WalkedKind(c))
                            => c2.x + c.x + c.cx = 2 * g.chOff + g.chExt

\* C3 witness: Scenario B, with a second group nested in the first: the group at
\* x = 1,000,000 (width 2,000,000) is at 9,192,000, its child at x = 500,000
\* (width 500,000, child space {0, 2,000,000}) is at 1,000,000, the nested group
\* (x = 500,000, width 2,000,000) is at -500,000 in that same space, and its
\* child (child space {500,000, 1,000,000}) is at 1,000,000.
C3_Witness ==
    /\ pc = "rtl"
    /\ pres_xml = <<>>
    /\ \E p \in PathsOf(InShapes) :
          LET g == NodeAt(InShapes, p)
              g2 == NodeAt(RtlShapes, p)
          IN  /\ Len(p) = 1 /\ g.kind = "grpSp" /\ g.xfrm
              /\ g.chOffDecl /\ g.chExtDecl /\ g.chOff = 0 /\ g.chExt = 2000000
              /\ g.x = 1000000 /\ g.cx = 2000000 /\ g2.x = 9192000
              /\ g.children[1].xfrm /\ g.children[1].x = 500000
              /\ g.children[1].cx = 500000 /\ g2.children[1].x = 1000000
              /\ Len(g.children) = 2
              /\ g.children[2].xfrm /\ g.children[2].chOffDecl /\ g.children[2].chExtDecl
              /\ g2.children[2].children[1].x = 1000000
              /\ g.children[2].x = 500000 /\ g2.children[2].x = -500000

\* the geometry of a node other than its x
FrameOf(node) ==
    [y |-> node.y, cx |-> node.cx, cy |-> node.cy, chOffDecl |-> node.chOffDecl,
     chExtDecl |-> node.chExtDecl, chOff |-> node.chOff, chExt |-> node.chExt,
     xfrm |-> node.xfrm]

\* C4: the transform leaves y, width and height of every shape, picture,
\* connector, group and graphic frame unchanged, and a group's child offset and
\* child extent too: x is the only coordinate it writes.
C4_OnlyXWritten ==
    pc = "rtl" =>
        /\ PathsOf(RtlShapes) = PathsOf(InShapes)
        /\ \A p \in PathsOf(InShapes) :
              FrameOf(NodeAt(RtlShapes, p)) = FrameOf(NodeAt(InShapes, p))

\* C4 witness: a shape, its group and the group's group have all been moved
\* (their x changed) by a transform.
C4_Witness ==
    /\ pc = "rtl"
    /\ \E p \in PathsOf(InShapes) :
          /\ Len(p) = 3
          /\ \A k \in 1..3 :
                NodeAt(RtlShapes, SubSeq(p, 1, k)).x # NodeAt(InShapes, SubSeq(p, 1, k)).x
          /\ NodeAt(InShapes, p).kind \in {"sp", "pic", "cxnSp", "graphicFrame"}

\* the text body holds a run whose text has a non-whitespace character
HasNonBlankRun(node) ==
    /\ node.txBody # <<>>
    /\ \E i \in 1..Len(node.txBody[1].paras) :
          \E j \in 1..Len(node.txBody[1].paras[i].items) :
              LET it == node.txBody[1].paras[i].items[j]
              IN  /\ it.tag = "r" /\ it.hasT
                  /\ \E k \in 1..Len(it.t) : ~IsSpace(it.t[k])

\* C5: a shape whose text body has a run with non-whitespace text never gets the
\* horizontal-flip flag from the classifier: its flipH is what it was, whatever
\* its preset geometry, name, size and aspect ratio.
C5_TextNeverFlipped ==
    pc = "rtl" =>
        \A p \in PathsOf(InShapes) :
            LET sp == NodeAt(InShapes, p)
            IN  (sp.kind = "sp" /\ HasNonBlankRun(sp))
                  => NodeAt(RtlShapes, p).flipH = sp.flipH

\* C5 witness: a wide right arrow with text and no flipH of its own was mirrored
\* and still has no flipH.
C5_Witness ==
    /\ pc = "rtl"
    /\ \E p \in PathsOf(InShapes) :
          LET sp == NodeAt(InShapes, p)
              sp2 == NodeAt(RtlShapes, p)
          IN  /\ sp.kind = "sp" /\ HasNonBlankRun(sp) /\ sp.xfrm
              /\ sp.prst = "rightArrow" /\ sp.name = NameShape
              /\ sp.cx = 6000000 /\ sp.cy = 500000 /\ sp.flipH = "none"
              /\ sp2.x # sp.x /\ sp2.flipH = "none"
              /\ sp2.txBody[1].rtlCol = "1"

\* C10 as claimed: the children of a group that declares no child offset / child
\* extent are mirrored in {offset: the group's own x, width: the group's own
\* width}: new x + old x + width = 2 * group x + group width.
C10_FallbackAtGroupOffset ==
    pc = "rtl" =>
        \A p \in PathsOf(InShapes) :
            LET g == NodeAt(InShapes, p)
                g2 == NodeAt(RtlShapes, p)
            IN  (/\ g.kind = "grpSp" /\ g.xfrm /\ ~g.chOffDecl /\ ~g.chExtDecl
                 /\ g.bad = "none" /\ UnderPlacedGroups(InShapes, p))
                =>
                \A i \in 1..Len(g.children) :
                    LET c == g.children[i]
                        c2 == g2.children[i]
                    IN  (c.xfrm /\ WalkedKind(c))
                          => c2.x + c.x + c.cx = 2 * g.x + g.cx

-----------------------------------------------------------------------------
(* Claims on the pipeline (Spec) *)

\* the kind and id found at every path
IdsByPath(container) ==
    { <<p, NodeAt(container, p).kind, NodeAt(container, p).id>> : p \in PathsOf(container) }

IdSet(container) == { NodeAt(container, p).id : p \in PathsOf(container) }

\* C6: neither the transform nor injection adds, removes or renumbers a shape:
\* the ids of the part (and the place and kind of the shape that carries each)
\* are the same in the input, in the transformed part and in the injected part,
\* whatever records the translator returned.
C6_IdsPreserved ==
    /\ rtl_xml # <<>> =>
          /\ IdsByPath(RtlShapes) = IdsByPath(InShapes)
          /\ IdSet(RtlShapes) = IdSet(InShapes)
    /\ final_xml # <<>> =>
          /\ IdsByPath(FinalShapes) = IdsByPath(InShapes)
          /\ IdSet(FinalShapes) = IdSet(InShapes)

\* the ids of the records of translated_json
RecordIds == { translated_json[k].id : k \in 1..Len(translated_json) }

\* C6 witness: injection has run with a record for an id no shape has, without a
\* record for shape 3, and with a record that changed shape 2.
C6_Witness ==
    /\ pc = "final"
    /\ 99 \in RecordIds /\ 2 \in RecordIds /\ 3 \notin RecordIds
    /\ final_xml # rtl_xml
    /\ IdSet(FinalShapes) = {2, 3, 4, 5}

\* the alignment _process_paragraph leaves
FlippedAlign(algn) ==
    CASE algn \in {"l", "none"} -> "r"
      [] algn = "r" -> "l"
      [] OTHER -> algn

Min(a, b) == IF a < b THEN a ELSE b

\* C7: injection runs only on a part the transform has completed on (the injected
\* file exists only once the transformed file does), and it keeps the body-level
\* RTL flag, and the RTL flag and the alignment of every surviving paragraph, as
\* the transform left them: set, and flipped, on every shape the transform rewrote.
C7_InjectAfterTransformKeepsRtl ==
    /\ final_xml # <<>> => rtl_xml # <<>>
    /\ pc = "final" =>
          \A p \in PathsOf(InShapes) :
              LET sp == NodeAt(InShapes, p)
                  r == NodeAt(RtlShapes, p)
                  f == NodeAt(FinalShapes, p)
              IN  (sp.kind = "sp" /\ sp.txBody # <<>>) =>
                    /\ f.txBody # <<>>
                    /\ f.txBody[1].rtlCol = r.txBody[1].rtlCol
                    /\ (sp.xfrm /\ UnderPlacedGroups(InShapes, p))
                          => f.txBody[1].rtlCol = "1"
                    /\ \A i \in 1..Min(Len(f.txBody[1].paras), Len(sp.txBody[1].paras)) :
                          /\ f.txBody[1].paras[i].rtl = r.txBody[1].paras[i].rtl
                          /\ f.txBody[1].paras[i].algn = r.txBody[1].paras[i].algn
                          /\ (sp.xfrm /\ UnderPlacedGroups(InShapes, p)) =>
                                /\ f.txBody[1].paras[i].rtl = "1"
                                /\ f.txBody[1].paras[i].algn =
                                      FlippedAlign(sp.txBody[1].paras[i].algn)

\* C7 witness: in a master's pipeline a record of two paragraphs was injected
\* into the three-paragraph shape 2 after its transform; both surviving
\* paragraphs carry the RTL flag and the flipped alignment, with the new text.
C7_Witness ==
    /\ pc = "final" /\ kind = "master"
    /\ \E k \in 1..Len(translated_json) :
          translated_json[k].id = 2 /\ Len(translated_json[k].paragraphs) = 2
    /\ InShapes[1].xfrm /\ InShapes[1].txBody # <<>>
    /\ Len(InShapes[1].txBody[1].paras) = 3
    /\ InShapes[1].txBody[1].paras[1].algn = "l"
    /\ FinalShapes[1].txBody[1].rtlCol = "1"
    /\ Len(FinalShapes[1].txBody[1].paras) = 2
    /\ FinalShapes[1].txBody[1].paras[1].rtl = "1"
    /\ FinalShapes[1].txBody[1].paras[1].algn = "r"
    /\ FinalShapes[1].txBody[1].paras[1] # RtlShapes[1].txBody[1].paras[1]

\* the runs (a:r) of a paragraph, in order
RunsOf(para) == LET is_run(it) == it.tag = "r" IN SelectSeq(para.items, is_run)

\* what is not a run in a paragraph, in order
NonRunsOf(para) == LET not_run(it) == it.tag # "r" IN SelectSeq(para.items, not_run)

\* the formatting properties of a run: its rPr with font, size, bold
FormatOf(run) ==
    [rPr |-> run.rPr, b |-> run.b, fmt |-> run.fmt, latin |-> run.latin,
     cs |-> run.cs, dirty |-> run.dirty]

\* the properties of a paragraph
PropsOf(para) ==
    [pPr |-> para.pPr, algn |-> para.algn, rtl |-> para.rtl, lvl |-> para.lvl,
     defLang |-> para.defLang]

\* C8: a record with n >= 1 paragraphs injected into a shape with a text body of m
\* paragraphs leaves exactly n paragraphs: paragraph i <= min(n, m) is the original
\* paragraph i (same properties, same fields) with exactly one run that carries
\* translated text i and the formatting of the original first run; the paragraphs
\* m+1..n are new, with the RTL flag and right alignment; for n < m the last m-n
\* original paragraphs are gone.
C8_InjectedParagraphs ==
    (pc = "final" /\ has_elements) =>
        \A p \in PathsOf(RtlShapes) :
            \A k \in 1..Len(translated_json) :
                LET r == NodeAt(RtlShapes, p)
                    f == NodeAt(FinalShapes, p)
                    rec == translated_json[k]
                    n == Len(rec.paragraphs)
                IN  (/\ r.kind = "sp" /\ r.txBody # <<>>
                     /\ rec.id = r.id /\ n >= 1)
                    =>
                    LET old == r.txBody[1].paras
                        new == f.txBody[1].paras
                        m == Len(old)
                    IN  /\ Len(new) = n
                        /\ \A i \in 1..n :
                              /\ Len(RunsOf(new[i])) = 1
                              /\ RunsOf(new[i])[1].hasT
                              /\ RunsOf(new[i])[1].t = rec.paragraphs[i].text
                        /\ \A i \in 1..Min(n, m) :
                              /\ PropsOf(new[i]) = PropsOf(old[i])
                              /\ NonRunsOf(new[i]) = NonRunsOf(old[i])
                              /\ RunsOf(old[i]) # <<>> =>
                                    /\ FormatOf(RunsOf(new[i])[1]) = FormatOf(RunsOf(old[i])[1])
                                    /\ RunsOf(new[i])[1].lang \in {RunsOf(old[i])[1].lang, "ar-SA"}
                        /\ \A i \in (m + 1)..n :
                              /\ new[i].rtl = "1"
                              /\ new[i].algn = "r"
                              /\ Len(new[i].items) = 1

\* C8 witness: Scenario D: a record of one paragraph was injected into shape 2,
\* which had three paragraphs, the first with two runs; one paragraph with one
\* run is left, with the formatting of the original first run.
C8_Witness ==
    /\ pc = "final"
    /\ \E k \in 1..Len(translated_json) :
          translated_json[k].id = 2 /\ Len(translated_json[k].paragraphs) = 1
    /\ RtlShapes[1].txBody # <<>>
    /\ Len(RtlShapes[1].txBody[1].paras) = 3
    /\ Len(RunsOf(RtlShapes[1].txBody[1].paras[1])) = 2
    /\ Len(FinalShapes[1].txBody[1].paras) = 1
    /\ Len(FinalShapes[1].txBody[1].paras[1].items) = 1
    /\ FinalShapes[1].txBody[1].paras[1].items[1].t = TrText(1)
    /\ FinalShapes[1].txBody[1].paras[1].items[1].fmt = "sz=1800"
    /\ FinalShapes[1].txBody[1].paras[1].items[1].latin = "Calibri"

\* a node without its children
Childless(node) == [node EXCEPT !.children = <<>>]

\* C9: injection leaves every shape whose id has no record untouched (and every
\* picture, connector, group and frame), and when no record's id matches a shape
\* the injected part is the transformed part, unchanged, and is still written.
C9_AbsentIdsUntouched ==
    (pc = "final" /\ has_elements) =>
        /\ \A p \in PathsOf(RtlShapes) :
              LET r == NodeAt(RtlShapes, p)
              IN  (r.kind # "sp" \/ r.id \notin RecordIds)
                    => Childless(NodeAt(FinalShapes, p)) = Childless(r)
        /\ (RecordIds \cap IdSet(RtlShapes) = {}) => final_xml = rtl_xml

\* C9 witness: records for shape 2 and for the unknown id 99 were injected, none
\* for shape 3: shape 3, which has text, is as the transform left it, while
\* shape 2 was rewritten.
C9_Witness ==
    /\ pc = "final"
    /\ RecordIds = {2, 99}
    /\ RtlShapes[2].children[1].id = 3
    /\ RtlShapes[2].children[1].txBody # <<>>
    /\ FinalShapes[2].children[1] = RtlShapes[2].children[1]
    /\ FinalShapes[1] # RtlShapes[1]

-----------------------------------------------------------------------------
(* Claims on the engine's error handling and classification (SpecEngine) *)

\* the paragraphs of a text body carry the RTL flag and the flipped alignment of
\* the paragraphs of `before`
BodyRewritten(before, after) ==
    /\ after.rtlCol = "1"
    /\ Len(after.paras) = Len(before.paras)
    /\ \A i \in 1..Len(before.paras) :
          /\ after.paras[i].rtl = "1"
          /\ after.paras[i].algn = FlippedAlign(before.paras[i].algn)

\* C11 as claimed: a text shape without a bounding box keeps its x and still has
\* its text body direction-rewritten, and a group without its own transform
\* keeps its x and still has its children traversed: each child with a box is
\* mirrored (in the page, for a top-level group) and its text body rewritten.
C11_NoBoxStillVisited ==
    pc = "rtl" =>
        \A p \in PathsOf(InShapes) :
            LET n == NodeAt(InShapes, p)
                n2 == NodeAt(RtlShapes, p)
            IN  UnderPlacedGroups(InShapes, p) =>
                  /\ (n.kind = "sp" /\ ~n.xfrm /\ n.txBody # <<>>) =>
                        /\ n2.x = n.x
                        /\ BodyRewritten(n.txBody[1], n2.txBody[1])
                  /\ (n.kind = "grpSp" /\ ~n.xfrm) =>
                        /\ n2.x = n.x
                        /\ \A i \in 1..Len(n.children) :
                              LET c == n.children[i]
                                  c2 == n2.children[i]
                              IN  (c.xfrm /\ WalkedKind(c)) =>
                                    /\ Len(p) = 1 => c2.x + c.x + c.cx = PageWidth
                                    /\ (c.kind = "sp" /\ c.txBody # <<>>) =>
                                          BodyRewritten(c.txBody[1], c2.txBody[1])

\* processing the node raises: int() is applied to an attribute that is not an
\* integer
Raises(node) ==
    /\ node.xfrm
    /\ CASE node.kind \in {"sp", "pic"} -> node.bad \in {"x", "y"}
         [] node.kind = "cxnSp" -> flip_connectors /\ node.bad \in {"x", "y"}
         [] node.kind = "grpSp" ->
              \/ node.bad = "x"
              \/ node.bad = "chOff" /\ node.chOffDecl /\ node.chExtDecl
         [] node.kind = "graphicFrame" -> node.bad = "x"
         [] OTHER -> FALSE

\* the walker gets to the node: every enclosing node is a group with its own
\* box whose processing did not raise
Visited(container, path) ==
    \A k \in 1..(Len(path) - 1) :
        LET a == NodeAt(container, SubSeq(path, 1, k))
        IN  a.kind = "grpSp" /\ a.xfrm /\ ~Raises(a)

\* the space the walker is in at the path: the page, or the child space of the
\* enclosing group (declared, or the fallback)
SpaceAt(container, path) ==
    IF Len(path) = 1
    THEN [offset |-> 0, width |-> PageWidth]
    ELSE LET g == NodeAt(container, ParentPath(path))
         IN  IF g.chOffDecl /\ g.chExtDecl
             THEN [offset |-> g.chOff, width |-> g.chExt]
             ELSE [offset |-> 0, width |-> g.cx]

\* the node's x is where mirroring in the walker's space puts it
MirroredAt(path) ==
    LET n == NodeAt(InShapes, path)
        sp == SpaceAt(InShapes, path)
    IN  NodeAt(RtlShapes, path).x + n.x + n.cx = 2 * sp.offset + sp.width

\* C12: when processing a shape raises, the exception is caught and counted as
\* one error (stats["errors"] is the number of visited nodes whose processing
\* raised), transform() does not raise and writes the part, and every other
\* visited node with a box, sibling of a raising node or in an enclosing
\* container, is still processed: its x is mirrored, and a text shape's body
\* rewritten.
C12_ExceptionsContained ==
    pc = "rtl" =>
        /\ rtl_xml # <<>> /\ stats # <<>>
        /\ stats[1].errors =
              Cardinality({ p \in PathsOf(InShapes) :
                              Visited(InShapes, p) /\ Raises(NodeAt(InShapes, p)) })
        /\ \A p \in PathsOf(InShapes) :
              LET n == NodeAt(InShapes, p)
                  n2 == NodeAt(RtlShapes, p)
              IN  (/\ Visited(InShapes, p) /\ n.xfrm /\ ~Raises(n)
                   /\ (n.kind = "cxnSp" => flip_connectors))
                  =>
                  /\ MirroredAt(p)
                  /\ (n.kind = "sp" /\ n.txBody # <<>>)
                        => BodyRewritten(n.txBody[1], n2.txBody[1])

\* C12 witness: the second top-level node raised and so did the first child of
\* the group after it: two errors were counted, both nodes are as they were,
\* and the shape before, the group, the group's other child and the frame
\* after were all mirrored.
C12_Witness ==
    /\ pc = "rtl"
    /\ Len(InShapes) = 4
    /\ Raises(InShapes[2]) /\ InShapes[3].kind = "grpSp" /\ Raises(InShapes[3].children[1])
    /\ stats[1].errors = 2
    /\ RtlShapes[2] = InShapes[2]
    /\ RtlShapes[3].children[1] = InShapes[3].children[1]
    /\ MirroredAt(<<1>>) /\ RtlShapes[1].x # InShapes[1].x
    /\ MirroredAt(<<3>>) /\ RtlShapes[3].x # InShapes[3].x
    /\ MirroredAt(<<3, 2>>) /\ RtlShapes[3].children[2].x # InShapes[3].children[2].x
    /\ MirroredAt(<<4>>) /\ RtlShapes[4].x # InShapes[4].x
    /\ RtlShapes[3].children[2].txBody[1].rtlCol = "1"

-----------------------------------------------------------------------------
(* Claims on the multi-part run (SpecRun) *)

\* the run is over: the output was rebuilt, or the run was abandoned
RunOver == job.status \in {"rebuilt", "failed"}

\* C13 as claimed: when a part has no p:spTree or fails otherwise, the run is
\* not aborted (it ends with the output rebuilt) and every other part was
\* processed to completion (its final file is among the replacements).
C13_PartFailureIsolated ==
    RunOver =>
        /\ job.status = "rebuilt"
        /\ \A i \in 1..Len(job.parts) :
              ~part_raises(job.parts[i]) => i \in job.replacements

\* the text body holds a run or a field whose text has a non-whitespace character
HasNonBlankText(node) ==
    /\ node.txBody # <<>>
    /\ \E i \in 1..Len(node.txBody[1].paras) :
          \E j \in 1..Len(node.txBody[1].paras[i].items) :
              LET it == node.txBody[1].paras[i].items[j]
              IN  it.hasT /\ \E k \in 1..Len(it.t) : ~IsSpace(it.t[k])

\* the engine the run built
Engine == engine_init(pres_xml, flip_connectors)

\* the shape is one the classifier is asked about: a text shape the walker
\* reaches, with a box
Classified(path) ==
    LET n == NodeAt(InShapes, path)
    IN  /\ n.kind = "sp" /\ n.xfrm /\ n.bad = "none"
        /\ Visited(InShapes, path)

\* the flip decision of the rules in order, on the verdict of the logo heuristic
FlipByRules(n, judged_logo) ==
    IF judged_logo THEN FALSE
    ELSE IF n.prst \in ARROW_GEOMETRIES THEN TRUE
    ELSE /\ 10 * n.cx >= 4 * PageWidth
         /\ n.cy > 0 /\ 2 * n.cx > 3 * n.cy

\* C14: for a shape without non-blank text the rules apply in order, first match
\* wins: judged a logo -> not flipped (flipH as it was), whatever its preset and
\* width; else a preset of the directional list -> flipH set; else flipH set
\* exactly when width >= 0.4 * page width and width / height > 1.5.
C14_FlipRulesInOrder ==
    pc = "rtl" =>
        \A p \in PathsOf(InShapes) :
            LET n == NodeAt(InShapes, p)
                n2 == NodeAt(RtlShapes, p)
                judged == is_likely_logo(Engine, n, n.name, get_bounding_box(n)[1])
            IN  (Classified(p) /\ ~HasNonBlankText(n)) =>
                    n2.flipH = IF FlipByRules(n, judged) THEN "1" ELSE n.flipH

\* C14 witness: a rectangle without text, not a logo, exactly 0.4 of the page
\* wide (4,876,800 of 12,192,000) and 4.8 times as wide as high, was flipped.
C14_Witness ==
    /\ pc = "rtl" /\ pres_xml = <<>>
    /\ Len(InShapes) = 1 /\ Classified(<<1>>)
    /\ InShapes[1].txBody = <<>> /\ InShapes[1].prst = "rect"
    /\ InShapes[1].name = NameShape
    /\ InShapes[1].cx = 4876800 /\ InShapes[1].cy = 1000000
    /\ InShapes[1].flipH = "none" /\ RtlShapes[1].flipH = "1"

\* the logo heuristic as the claim states it, for a non-picture shape: a brand
\* keyword in the name, or narrower than 15% of the page width and within the
\* 10% margin of the left or right edge and 0.5 <= width / height <= 2.0, the
\* ratio being 0 when the height is 0
LogoAsClaimed(n) ==
    \/ \E keyword \in LOGO_KEYWORDS : Contains(lower(n.name), keyword)
    \/ /\ 100 * n.cx < 15 * PageWidth
       /\ \/ 10 * n.x < PageWidth
          \/ 10 * (n.x + n.cx) > 9 * PageWidth
       /\ n.cy > 0 /\ n.cy <= 2 * n.cx /\ n.cx <= 2 * n.cy

\* C15 as claimed, seen through the flip decision of a directional shape without
\* text: it is left unflipped exactly when LogoAsClaimed, for every box,
\* height 0 included.
C15_LogoHeuristic ==
    pc = "rtl" =>
        \A p \in PathsOf(InShapes) :
            LET n == NodeAt(InShapes, p)
                n2 == NodeAt(RtlShapes, p)
            IN  (Classified(p) /\ ~HasNonBlankText(n) /\ n.prst \in ARROW_GEOMETRIES) =>
                    n2.flipH = IF LogoAsClaimed(n) THEN n.flipH ELSE "1"

\* what the code does: C15 with every box of height 0 taken as roughly square
C15_LogoHeuristicHeightZeroSquare ==
    pc = "rtl" =>
        \A p \in PathsOf(InShapes) :
            LET n == NodeAt(InShapes, p)
                n2 == NodeAt(RtlShapes, p)
                small_corner == /\ 100 * n.cx < 15 * PageWidth
                                /\ \/ 10 * n.x < PageWidth
                                   \/ 10 * (n.x + n.cx) > 9 * PageWidth
            IN  (Classified(p) /\ ~HasNonBlankText(n) /\ n.prst \in ARROW_GEOMETRIES) =>
                    n2.flipH = IF LogoAsClaimed(n) \/ (small_corner /\ n.cy <= 0)
                               THEN n.flipH ELSE "1"

\* a node of the kind the walker reaches, with a box
Boxed(path, k) ==
    LET n == NodeAt(InShapes, path)
    IN  /\ n.kind = k /\ n.xfrm /\ n.bad = "none"
        /\ Visited(InShapes, path)

\* the node is of kind k and has a box, inside groups or not; its coordinate
\* space is the page or the declared child space of its parent group
BoxedInDeclaredSpace(path, k) ==
    LET n == NodeAt(InShapes, path)
    IN  /\ n.kind = k /\ n.xfrm /\ n.bad = "none"
        /\ UnderGroups(InShapes, path)
        /\ Len(path) > 1 =>
              LET g == NodeAt(InShapes, ParentPath(path))
              IN  g.xfrm /\ g.chOffDecl /\ g.chExtDecl

\* C16: every picture with a box has its x mirrored in its coordinate space
\* and its flipH exactly as it was (absent stays absent), whatever its name,
\* size and position.
C16_EveryPictureMirrored ==
    pc = "rtl" =>
        \A p \in PathsOf(InShapes) :
            BoxedInDeclaredSpace(p, "pic") =>
                /\ MirroredAt(p)
                /\ NodeAt(RtlShapes, p).flipH = NodeAt(InShapes, p).flipH

\* the part of C16 the code keeps: every picture with a box that the walker
\* reaches has its x mirrored in the space the walker is in and nothing else
\* changed; the picture "CompanyLogo" of width 1,000,000 at x = 0 goes to
\* x = 11,192,000 on the default page, unflipped.
C16_PicturesMirroredNeverFlipped ==
    pc = "rtl" =>
        \A p \in PathsOf(InShapes) :
            Boxed(p, "pic") =>
                /\ MirroredAt(p)
                /\ NodeAt(RtlShapes, p).flipH = NodeAt(InShapes, p).flipH
                /\ [NodeAt(RtlShapes, p) EXCEPT !.x = 0]
                     = [NodeAt(InShapes, p) EXCEPT !.x = 0]

\* C16 witness: Scenario C, and a picture named "Arrow" inside a group, both
\* moved and neither flipped.
C16_Witness ==
    /\ pc = "rtl" /\ pres_xml = <<>>
    /\ Len(InShapes) = 3
    /\ Boxed(<<1>>, "pic") /\ InShapes[1].name = NameLogo
    /\ InShapes[1].x = 0 /\ InShapes[1].cx = 1000000 /\ InShapes[1].flipH = "none"
    /\ RtlShapes[1].x = 11192000 /\ RtlShapes[1].flipH = "none"
    /\ Boxed(<<3, 1>>, "pic") /\ InShapes[3].children[1].flipH = "0"
    /\ RtlShapes[3].children[1].x = 2000000
    /\ RtlShapes[3].children[1].flipH = "0"

\* flipH toggled: set becomes cleared, cleared or absent becomes set
Toggled(flipH) == IF flipH = "1" THEN "0" ELSE "1"

\* the part of C17 the code keeps: when connector processing is on
\* (flip_connectors, the default, and what every pipeline passes) every
\* connector with a box that the walker reaches has its x mirrored in the space
\* the walker is in and its flipH toggled exactly once; when it is off,
\* connectors are left as they were.
C17_ConnectorsToggledWhenEnabled ==
    pc = "rtl" =>
        \A p \in PathsOf(InShapes) :
            Boxed(p, "cxnSp") =>
                /\ flip_connectors =>
                      /\ MirroredAt(p)
                      /\ NodeAt(RtlShapes, p).flipH = Toggled(NodeAt(InShapes, p).flipH)
                /\ ~flip_connectors => NodeAt(RtlShapes, p) = NodeAt(InShapes, p)

\* C17 witness: with connector processing on, a connector with flipH set at the
\* top level and one without flipH inside a group were both mirrored; the first
\* has flipH cleared, the second has it set.
C17_Witness ==
    /\ pc = "rtl" /\ flip_connectors /\ pres_xml = <<>>
    /\ Len(InShapes) = 3
    /\ Boxed(<<2>>, "cxnSp") /\ InShapes[2].flipH = "1"
    /\ RtlShapes[2].flipH = "0" /\ RtlShapes[2].x = 12192000 - 5000000
    /\ Boxed(<<3, 2>>, "cxnSp") /\ InShapes[3].children[2].flipH = "none"
    /\ RtlShapes[3].children[2].flipH = "1"
    /\ RtlShapes[3].children[2].x = 1500000

\* C17: every connector with a box has its x mirrored in its coordinate space
\* and its flipH toggled exactly once by a transform (set becomes cleared,
\* cleared or absent becomes set); stated for the engine as the pipelines build
\* it, with connector processing on.
C17_EveryConnectorToggled ==
    (pc = "rtl" /\ flip_connectors) =>
        \A p \in PathsOf(InShapes) :
            BoxedInDeclaredSpace(p, "cxnSp") =>
                /\ MirroredAt(p)
                /\ NodeAt(RtlShapes, p).flipH = Toggled(NodeAt(InShapes, p).flipH)

\* C17 for any engine: the same, with connector processing on or off
C17_ConnectorsAlwaysToggled ==
    pc = "rtl" =>
        \A p \in PathsOf(InShapes) :
            Boxed(p, "cxnSp") =>
                /\ MirroredAt(p)
                /\ NodeAt(RtlShapes, p).flipH = Toggled(NodeAt(InShapes, p).flipH)

\* the text bodies the rewriter is called on, each with what it has become:
\* those of the text shapes with a box, and those of the cells of the tables in
\* frames with a box (cell i of a row of n cells is cell n + 1 - i afterwards)
ShapeBodyPairs ==
    { <<NodeAt(InShapes, p).txBody[1], NodeAt(RtlShapes, p).txBody[1]>> :
        p \in { q \in PathsOf(InShapes) :
                  Classified(q) /\ NodeAt(InShapes, q).txBody # <<>> } }

CellBodyPairs ==
    UNION { LET t == NodeAt(InShapes, p).tbl[1]
                t2 == NodeAt(RtlShapes, p).tbl[1]
            IN  UNION { { <<t.rows[r][i].txBody[1],
                            t2.rows[r][Len(t.rows[r]) + 1 - i].txBody[1]>> :
                            i \in { j \in 1..Len(t.rows[r]) : t.rows[r][j].txBody # <<>> } } :
                        r \in 1..Len(t.rows) } :
            p \in { q \in PathsOf(InShapes) :
                      /\ Boxed(q, "graphicFrame")
                      /\ NodeAt(InShapes, q).uri = "table"
                      /\ NodeAt(InShapes, q).tbl # <<>> } }

BodyPairs == ShapeBodyPairs \cup CellBodyPairs

\* the alignment map of the claim: left -> right, right -> left, the others
\* unchanged; a paragraph without alignment is given right
AlignMap(algn) ==
    CASE algn = "l" -> "r"
      [] algn = "r" -> "l"
      [] algn = "none" -> "r"
      [] OTHER -> algn

\* C18: once the rewriter has processed a text body, the body's RTL flag
\* (rtlCol) is set, the body has the same paragraphs, and every paragraph has
\* its RTL flag set, the default run language ar-SA and its alignment mapped
\* l -> r, r -> l, with ctr and just (and any other value) unchanged.
C18_BodyAndParagraphsRtl ==
    pc = "rtl" =>
        \A bp \in BodyPairs :
            /\ bp[2].rtlCol = "1"
            /\ Len(bp[2].paras) = Len(bp[1].paras)
            /\ \A i \in 1..Len(bp[1].paras) :
                  /\ bp[2].paras[i].pPr
                  /\ bp[2].paras[i].rtl = "1"
                  /\ bp[2].paras[i].defLang = "ar-SA"
                  /\ bp[2].paras[i].algn = AlignMap(bp[1].paras[i].algn)
                  /\ bp[2].paras[i].lvl = bp[1].paras[i].lvl
                  /\ Len(bp[2].paras[i].items) = Len(bp[1].paras[i].items)

\* C18 witness: a body of a centred paragraph, a right-aligned one and one
\* without alignment was rewritten: centred stays, right became left, the
\* third became right, all with the RTL flag and ar-SA.
C18_Witness ==
    /\ pc = "rtl"
    /\ Len(InShapes) = 1 /\ Classified(<<1>>) /\ InShapes[1].id = 71
    /\ InShapes[1].txBody[1].rtlCol = "none"
    /\ InShapes[1].txBody[1].paras[1].algn = "ctr"
    /\ InShapes[1].txBody[1].paras[2].algn = "r"
    /\ RtlShapes[1].txBody[1].rtlCol = "1"
    /\ RtlShapes[1].txBody[1].paras[1].algn = "ctr"
    /\ RtlShapes[1].txBody[1].paras[2].algn = "l"
    /\ RtlShapes[1].txBody[1].paras[3].algn = "r"
    /\ \A i \in 1..3 : /\ RtlShapes[1].txBody[1].paras[i].rtl = "1"
                       /\ RtlShapes[1].txBody[1].paras[i].defLang = "ar-SA"

\* the known-good Arabic fonts, compared without regard to case
KnownArabicFont(cs) ==
    typeface_lower(cs) \in
        {"simplified arabic", "traditional arabic", "arabic typesetting", "arial"}

\* the runs the rewriter is called on, each with what it has become
RunPairs ==
    UNION { UNION { { <<bp[1].paras[i].items[j], bp[2].paras[i].items[j]>> :
                        j \in { k \in 1..Len(bp[1].paras[i].items) :
                                  bp[1].paras[i].items[k].tag = "r" } } :
                    i \in 1..Len(bp[1].paras) } :
            bp \in BodyPairs }

\* C19: every run gets the language ar-SA; without a:latin and a:cs it gets the
\* complex-script font Simplified Arabic and the Latin font Arial; a
\* complex-script font outside the known-good list is replaced by Simplified
\* Arabic; one inside the list is left as it is; a Latin font that was set is
\* kept (and a run with a Latin font only gets Simplified Arabic as its
\* complex-script font); text and the other properties are untouched.
C19_RunLanguageAndFonts ==
    pc = "rtl" =>
        \A rp \in RunPairs :
            LET old == rp[1]
                new == rp[2]
            IN  /\ new.rPr /\ new.lang = "ar-SA"
                /\ (old.latin = "none" /\ old.cs = "none") =>
                      new.cs = "Simplified Arabic" /\ new.latin = "Arial"
                /\ (old.cs # "none" /\ ~KnownArabicFont(old.cs)) =>
                      new.cs = "Simplified Arabic" /\ new.latin = old.latin
                /\ (old.cs # "none" /\ KnownArabicFont(old.cs)) =>
                      new.cs = old.cs /\ new.latin = old.latin
                /\ (old.cs = "none" /\ old.latin # "none") =>
                      new.cs = "Simplified Arabic" /\ new.latin = old.latin
                /\ [new EXCEPT !.rPr = TRUE, !.lang = "", !.cs = "", !.latin = ""]
                     = [old EXCEPT !.rPr = TRUE, !.lang = "", !.cs = "", !.latin = ""]

\* C19 witness: in one body a run with the Latin font Calibri and the
\* allow-listed complex-script font "ARIAL" kept both, and in another
\* paragraph a run with "ARIAL" only kept it too, both with language ar-SA.
C19_Witness ==
    /\ pc = "rtl"
    /\ Len(InShapes) = 1 /\ Classified(<<1>>) /\ InShapes[1].id = 71
    /\ InShapes[1].txBody[1].paras[1].items[1].latin = "Calibri"
    /\ InShapes[1].txBody[1].paras[1].items[1].cs = "ARIAL"
    /\ InShapes[1].txBody[1].paras[1].items[1].lang = "en-US"
    /\ RtlShapes[1].txBody[1].paras[1].items[1].lang = "ar-SA"
    /\ RtlShapes[1].txBody[1].paras[1].items[1].cs = "ARIAL"
    /\ RtlShapes[1].txBody[1].paras[1].items[1].latin = "Calibri"
    /\ RtlShapes[1].txBody[1].paras[2].items[2].cs = "ARIAL"
    /\ RtlShapes[1].txBody[1].paras[2].items[1] = InShapes[1].txBody[1].paras[2].items[1]

\* the texts of the runs and fields of a body, paragraph by paragraph
TextsOf(body) ==
    [i \in 1..Len(body.paras) |->
        [j \in 1..Len(body.paras[i].items) |-> body.paras[i].items[j].t]]

\* `new` is the cell `old` with its text body, if it has one, rewritten once
CellRewritten(old, new) ==
    IF old.txBody = <<>>
    THEN new.txBody = <<>>
    ELSE /\ new.txBody # <<>>
         /\ BodyRewritten(old.txBody[1], new.txBody[1])
         /\ TextsOf(new.txBody[1]) = TextsOf(old.txBody[1])

\* the table `new` is the table `old` processed: a row of n cells has as cell i
\* the old cell n + 1 - i, its text body rewritten once; the column widths are
\* reversed; and when every row has as many cells as there are widths, each
\* old cell i is at place n + 1 - i under the width of old column i
TableReversed(old, new) ==
    LET cols == Len(old.grid)
    IN  /\ Len(new.rows) = Len(old.rows)
        /\ \A r \in 1..Len(old.rows) :
              LET n == Len(old.rows[r])
              IN  /\ Len(new.rows[r]) = n
                  /\ \A i \in 1..n :
                        CellRewritten(old.rows[r][n + 1 - i], new.rows[r][i])
        /\ new.gridDecl = old.gridDecl
        /\ Len(new.grid) = cols
        /\ \A c \in 1..cols : new.grid[c] = old.grid[cols + 1 - c]
        /\ (\A r \in 1..Len(old.rows) : Len(old.rows[r]) = cols) =>
              \A r \in 1..Len(old.rows) :
                  \A i \in 1..cols :
                      /\ CellRewritten(old.rows[r][i], new.rows[r][cols + 1 - i])
                      /\ new.grid[cols + 1 - i] = old.grid[i]

\* the paths of the frames with a table: all those with a box, and those of
\* them the walker reaches
TableFrames ==
    { q \in PathsOf(InShapes) :
        /\ NodeAt(InShapes, q).kind = "graphicFrame"
        /\ NodeAt(InShapes, q).xfrm /\ NodeAt(InShapes, q).bad = "none"
        /\ UnderGroups(InShapes, q)
        /\ NodeAt(InShapes, q).uri = "table"
        /\ NodeAt(InShapes, q).tbl # <<>> }

ReachedTableFrames == { q \in TableFrames : Visited(InShapes, q) }

\* C20: in every table, a row of n > 1 cells has its cells in exactly reversed
\* order (cell i is the old cell n + 1 - i), a row of no or one cell keeps its
\* structure, every cell's text body is rewritten exactly once (a left-aligned
\* paragraph is right-aligned, not left again), and the column widths are
\* reversed once whatever the number of rows; so when every row has as many
\* cells as there are widths, each cell, at its new place, meets the width of
\* its old column.
C20_EveryTableReversed ==
    pc = "rtl" =>
        \A q \in TableFrames :
            TableReversed(NodeAt(InShapes, q).tbl[1], NodeAt(RtlShapes, q).tbl[1])

\* the part of C20 the code keeps: the same, for the tables of the frames the
\* walker reaches
C20_TableReversed ==
    pc = "rtl" =>
        \A q \in ReachedTableFrames :
            TableReversed(NodeAt(InShapes, q).tbl[1], NodeAt(RtlShapes, q).tbl[1])

\* a processed table of two rows of three cells and three column widths:
\* both rows are reversed, the widths are 300, 200, 100, and the old first
\* cell, left-aligned, is the last cell, right-aligned.
C20_Witness ==
    /\ pc = "rtl"
    /\ Len(InShapes) = 1 /\ Boxed(<<1>>, "graphicFrame") /\ InShapes[1].id = 81
    /\ InShapes[1].tbl[1].grid = <<100, 200, 300>>
    /\ InShapes[1].tbl[1].rows = << <<Cell(1), Cell(2), Cell(3)>>,
                                    <<[txBody |-> <<>>], Cell(4), Cell(1)>> >>
    /\ RtlShapes[1].tbl[1].grid = <<300, 200, 100>>
    /\ RtlShapes[1].tbl[1].rows[1][3].txBody[1].paras[1].algn = "r"
    /\ TextsOf(RtlShapes[1].tbl[1].rows[1][3].txBody[1]) = TextsOf(Cell(1).txBody[1])
    /\ RtlShapes[1].tbl[1].rows[2][3].txBody = <<>>
    /\ RtlShapes[1].tbl[1].rows[2][1].txBody[1].rtlCol = "1"
    /\ RtlShapes[1].x = 12192000 - 5000000

-----------------------------------------------------------------------------
(* Claims about a second run of the engine (SpecTwice) *)

\* the shapes of the part after the second run
TwiceShapes == final_xml[1].shapes

\* the cell of the input table that a cell of an output table is: cells are
\* told apart by having a text body and by its texts, which no rewriting changes
SameCell(old, new) ==
    IF old.txBody = <<>>
    THEN new.txBody = <<>>
    ELSE new.txBody # <<>> /\ TextsOf(new.txBody[1]) = TextsOf(old.txBody[1])

\* C21: a table the column reversal was applied to twice has, in every row, its
\* cells in the original order, and its column widths in the original order.
C21_TableReversalInvolution ==
    pc = "rtl2" =>
        \A q \in ReachedTableFrames :
            LET old == NodeAt(InShapes, q).tbl[1]
                new == NodeAt(TwiceShapes, q).tbl[1]
            IN  /\ Len(new.rows) = Len(old.rows)
                /\ \A r \in 1..Len(old.rows) :
                      /\ Len(new.rows[r]) = Len(old.rows[r])
                      /\ \A i \in 1..Len(old.rows[r]) :
                            SameCell(old.rows[r][i], new.rows[r][i])
                /\ new.grid = old.grid

\* C21 witness: a table of rows of three cells and three widths was reversed
\* by the first run (widths 300, 200, 100, the old first cell last) and is in
\* its original order after the second.
C21_Witness ==
    /\ pc = "rtl2"
    /\ Len(InShapes) = 1 /\ <<1>> \in ReachedTableFrames
    /\ InShapes[1].tbl[1].grid = <<100, 200, 300>>
    /\ InShapes[1].tbl[1].rows = << <<Cell(1), Cell(2), Cell(3)>>,
                                    <<[txBody |-> <<>>], Cell(4), Cell(1)>> >>
    /\ RtlShapes[1].tbl[1].grid = <<300, 200, 100>>
    /\ SameCell(Cell(1), RtlShapes[1].tbl[1].rows[1][3])
    /\ ~SameCell(Cell(1), RtlShapes[1].tbl[1].rows[1][1])
    /\ TwiceShapes[1].tbl[1].grid = <<100, 200, 300>>
    /\ SameCell(Cell(1), TwiceShapes[1].tbl[1].rows[1][1])
    /\ SameCell(Cell(1), TwiceShapes[1].tbl[1].rows[2][3])

\* C25: after a second run of the transform on the transformed part, with the
\* same page width, every shape, picture, connector, group and graphic frame,
\* at every depth, has its original x again (and the y, width and height it
\* always had).
C25_SecondRunRestoresLayout ==
    pc = "rtl2" =>
        /\ PathsOf(TwiceShapes) = PathsOf(InShapes)
        /\ \A p \in PathsOf(InShapes) :
              /\ NodeAt(TwiceShapes, p).x = NodeAt(InShapes, p).x
              /\ FrameOf(NodeAt(TwiceShapes, p)) = FrameOf(NodeAt(InShapes, p))

\* C25 witness: Scenario B's group with a nested group, on the default page:
\* the first run moved the group to 9,192,000 and its child to 1,000,000, the
\* nested group's child too; after the second run all are where they were.
C25_Witness ==
    /\ pc = "rtl2" /\ pres_xml = <<>>
    /\ Len(InShapes) = 2
    /\ InShapes[2].kind = "grpSp" /\ InShapes[2].x = 1000000
    /\ Len(InShapes[2].children) = 2
    /\ InShapes[2].children[1].x = 500000
    /\ RtlShapes[2].x = 9192000
    /\ RtlShapes[2].children[1].x = 1000000
    /\ RtlShapes[2].children[2].x # InShapes[2].children[2].x
    /\ RtlShapes[2].children[2].children[1].x # InShapes[2].children[2].children[1].x
    /\ RtlShapes[1].x = 9192000
    /\ TwiceShapes[1].x = 0
    /\ TwiceShapes[2].x = 1000000
    /\ TwiceShapes[2].children[1].x = 500000
    /\ TwiceShapes[2].children[2].children[1].x = InShapes[2].children[2].children[1].x

\* the decision of the classifier on the shape as it stands in a tree
DecidesToFlip(n) == should_flip_shape(Engine, n, get_bounding_box(n)[1], n.name)

\* C29: for a text/vector shape the flip is a set: when the classifier decides
\* to flip, flipH is 1 afterwards whatever it was, otherwise flipH is as it was;
\* so a shape flipped by the first run still has flipH = 1 after the second.
\* No node other than a connector has its flipH go from set to cleared, and
\* pictures, groups and graphic frames keep theirs.
C29_FlipIsSetNotToggle ==
    pc \in {"rtl", "rtl2"} =>
        /\ \A p \in PathsOf(InShapes) :
              LET n == NodeAt(InShapes, p)
                  n1 == NodeAt(RtlShapes, p)
              IN  /\ Classified(p) =>
                        n1.flipH = IF DecidesToFlip(n) THEN "1" ELSE n.flipH
                  /\ n.kind # "cxnSp" => n1.flipH \in {n.flipH, "1"}
                  /\ n.kind \notin {"cxnSp", "sp"} => n1.flipH = n.flipH
        /\ pc = "rtl2" =>
              \A p \in PathsOf(InShapes) :
                  LET n == NodeAt(InShapes, p)
                      n1 == NodeAt(RtlShapes, p)
                      n2 == NodeAt(TwiceShapes, p)
                  IN  /\ Classified(p) =>
                            /\ n2.flipH = IF DecidesToFlip(n1) THEN "1" ELSE n1.flipH
                            /\ DecidesToFlip(n) => n2.flipH = "1"
                      /\ n.kind # "cxnSp" => n2.flipH \in {n1.flipH, "1"}

\* C29 witness: a right arrow without text that already had flipH = 1 has
\* flipH = 1 after the first run and after the second.
C29_Witness ==
    /\ pc = "rtl2"
    /\ Len(InShapes) = 1 /\ Classified(<<1>>)
    /\ InShapes[1].prst = "rightArrow" /\ InShapes[1].flipH = "1"
    /\ DecidesToFlip(InShapes[1])
    /\ RtlShapes[1].flipH = "1"
    /\ RtlShapes[1].x # InShapes[1].x
    /\ TwiceShapes[1].flipH = "1"

-----------------------------------------------------------------------------
(* The classifier before and after the position mirror *)

\* the left and the right margin of the page, 10% of its width each
InLeftMargin(n) == 10 * n.x < PageWidth
InRightMargin(n) == 10 * (n.x + n.cx) > 9 * PageWidth

\* C30: for a shape in the root space, the logo heuristic and the flip decision
\* give on the mirrored box the verdict they give on the original box; in the
\* left margin before is in the right margin after, and the other way round.
C30_ClassifierMirrorSymmetric ==
    pc = "rtl" =>
        \A i \in 1..Len(InShapes) :
            LET n == InShapes[i]
                m == [n EXCEPT !.x = RtlShapes[i].x]
            IN  Classified(<<i>>) =>
                  /\ m.x = mirror_x(n.x, n.cx, PageWidth, 0)
                  /\ InLeftMargin(n) <=> InRightMargin(m)
                  /\ InRightMargin(n) <=> InLeftMargin(m)
                  /\ is_likely_logo(Engine, m, m.name, get_bounding_box(m)[1])
                       <=> is_likely_logo(Engine, n, n.name, get_bounding_box(n)[1])
                  /\ DecidesToFlip(m) <=> DecidesToFlip(n)

\* C30 witness: on the default page a small square shape without a logo name,
\* one unit inside the left margin (x = 1,219,199), is judged a logo there and
\* at its mirrored place, one unit inside the right margin; the same shape at
\* x = 5,000,000 is judged none at either place.
C30_Witness ==
    /\ pc = "rtl" /\ pres_xml = <<>>
    /\ Len(InShapes) = 1 /\ Classified(<<1>>)
    /\ InShapes[1].name = NameShape
    /\ InShapes[1].x = 1219199 /\ InShapes[1].cx = 1000000 /\ InShapes[1].cy = 1000000
    /\ RtlShapes[1].x = 9972801
    /\ InLeftMargin(InShapes[1]) /\ ~InRightMargin(InShapes[1])
    /\ InRightMargin(RtlShapes[1]) /\ ~InLeftMargin(RtlShapes[1])
    /\ is_likely_logo(Engine, InShapes[1], NameShape, get_bounding_box(InShapes[1])[1])
    /\ is_likely_logo(Engine, RtlShapes[1], NameShape, get_bounding_box(RtlShapes[1])[1])

-----------------------------------------------------------------------------
(* Claims about the chart part (SpecChart) *)

\* the chart is a horizontal bar chart: it has a c:barChart with barDir "bar"
HorizontalBar(doc) ==
    \E i \in 1..Len(doc.plots) :
        doc.plots[i].tag = "barChart" /\ doc.plots[i].barDir = "bar"

\* the elements of the sequence with the tag
Tagged(seq, tag) == SelectSeq(seq, LAMBDA e : e.tag = tag)

\* the elements of the sequence without the tag
NotTagged(seq, tag) == SelectSeq(seq, LAMBDA e : e.tag # tag)

\* the value axis `after` is the value axis `before` with its orientation
\* reversed: one c:scaling with one c:orientation of value maxMin, the other
\* children of the axis and of c:scaling as they were, and a c:scaling that was
\* missing placed immediately before c:axId
AxisReversed(before, after) ==
    LET sc == Tagged(after.children, "scaling")
    IN  /\ after.tag = before.tag
        /\ Len(sc) = 1
        /\ Tagged(sc[1].kids, "orientation") = <<Kid("orientation", "maxMin")>>
        /\ NotTagged(after.children, "scaling") = NotTagged(before.children, "scaling")
        /\ IF Tagged(before.children, "scaling") = <<>>
           THEN /\ NotTagged(sc[1].kids, "orientation") = <<>>
                /\ FirstTagged(before.children, "axId") # 0 =>
                      FirstTagged(after.children, "scaling") + 1
                          = FirstTagged(after.children, "axId")
           ELSE /\ FirstTagged(after.children, "scaling")
                     = FirstTagged(before.children, "scaling")
                /\ NotTagged(sc[1].kids, "orientation")
                     = NotTagged(Tagged(before.children, "scaling")[1].kids, "orientation")

\* C22: after any number of runs of inject_chart_text, the value axis of a
\* horizontal bar chart has exactly one c:scaling with exactly one
\* c:orientation, of value maxMin (reversed), a c:scaling that was missing
\* standing before c:axId, and every other axis is as it was; in a chart of any
\* other sub-type no axis is changed; the plots are never changed, and every
\* run after the first leaves the axes as the first run left them.
C22_ChartAxisFlipper ==
    chart.runs >= 1 =>
        LET before == chart.xml[1]
            after == chart.final[1]
            v == FirstTagged(before.axes, "valAx")
        IN  /\ after.plots = before.plots
            /\ Len(after.axes) = Len(before.axes)
            /\ after.axes = chart.first[1].axes
            /\ IF HorizontalBar(before) /\ v # 0
               THEN /\ AxisReversed(before.axes[v], after.axes[v])
                    /\ \A k \in 1..Len(before.axes) :
                          k # v => after.axes[k] = before.axes[k]
               ELSE after.axes = before.axes

\* C22 witness: Scenario E: a horizontal bar chart whose value axis had no
\* c:scaling has, after three runs, c:scaling with orientation maxMin before
\* c:axId, once.
C22_Witness ==
    /\ chart.runs = 3
    /\ chart.xml[1].plots = <<Plot("barChart", "bar")>>
    /\ chart.xml[1].axes = <<CatAx, ValAx(<<Elem("axId"), Elem("delete")>>)>>
    /\ chart.final[1].axes =
          <<CatAx, ValAx(<<Scaling(<<Kid("orientation", "maxMin")>>),
                           Elem("axId"), Elem("delete")>>)>>

-----------------------------------------------------------------------------
(* Claims about extraction (SpecExtract) *)

\* the text shapes of the part, at any depth
TextShapePaths == { p \in PathsOf(InShapes) : NodeAt(InShapes, p).kind = "sp" }

\* the text shapes whose combined text is not empty or whitespace-only
TextBearing == { p \in TextShapePaths : HasNonBlankText(NodeAt(InShapes, p)) }

\* the role of the claim for a placeholder type
RoleOf(ph) ==
    CASE ph \in {"title", "ctrTitle"} -> "title"
      [] ph = "subTitle" -> "subtitle"
      [] ph \in {"body", "obj", "dt", "ftr", "sldNum"} -> "body"
      [] OTHER -> "content"

\* the text shape a record was made from (ids are unique in a part)
ShapeOfRecord(k) ==
    NodeAt(InShapes, CHOOSE p \in TextShapePaths :
                         NodeAt(InShapes, p).id = content_json[k].id)

\* C23: extraction makes exactly one record for every text shape with
\* non-blank combined text and none for the others; the record's id is the
\* shape's, its role the one its placeholder type stands for, and the records
\* are in ascending order of the y of their shapes.
C23_ExtractionRecords ==
    pc = "content" =>
        /\ Len(content_json) = Cardinality(TextBearing)
        /\ \A p \in TextBearing :
              Cardinality({ k \in 1..Len(content_json) :
                              content_json[k].id = NodeAt(InShapes, p).id }) = 1
        /\ \A k \in 1..Len(content_json) :
              /\ \E p \in TextBearing : NodeAt(InShapes, p).id = content_json[k].id
              /\ content_json[k].role = RoleOf(ShapeOfRecord(k).ph)
        /\ \A k, l \in 1..Len(content_json) :
              (k < l /\ ShapeOfRecord(k).xfrm /\ ShapeOfRecord(l).xfrm) =>
                  ShapeOfRecord(k).y <= ShapeOfRecord(l).y

\* C23 witness: three text-bearing shapes whose document order is 2, 3, 7 and
\* whose y are 2,000,000, 500,000 and 100,000 give the records 7, 3, 2, with
\* the roles body, subtitle and title.
C23_Witness ==
    /\ pc = "content"
    /\ InShapes[1].y = 2000000 /\ InShapes[1].xfrm /\ InShapes[1].ph = "ctrTitle"
    /\ InShapes[3].y = 100000
    /\ Len(content_json) = 3
    /\ content_json[1].id = 7 /\ content_json[1].role = "body"
    /\ content_json[2].id = 3 /\ content_json[2].role = "subtitle"
    /\ content_json[3].id = 2 /\ content_json[3].role = "title"

-----------------------------------------------------------------------------
(* Claims about the translation step (SpecTranslate) *)

\* C24: on every translation path the ids of the records handed to injection
\* are the ids of the extracted records: none dropped, none added.
C24_TranslatedIdsEqualExtracted ==
    (pc \in {"translated", "rtl", "final"} /\ has_elements) =>
        IdsOf(translated_json) = IdsOf(content_json)

\* what the code keeps of C24: the mock returns exactly the extracted ids, and
\* the OpenAI path never hands over a record set with an extracted id missing
\* (it may hand over one with an id added); the Anthropic path checks nothing.
C24_NoDropWhereVerified ==
    (pc \in {"translated", "rtl", "final"} /\ has_elements) =>
        /\ translator = "mock" => IdsOf(translated_json) = IdsOf(content_json)
        /\ translator = "openai" => IdsOf(content_json) \subseteq IdsOf(translated_json)

\* the Anthropic path has handed to injection a record set without the record
\* of an extracted shape, and the shape kept its original text
C24_AnthropicDropped ==
    /\ pc = "final" /\ translator = "anthropic"
    /\ 3 \in IdsOf(content_json) /\ 3 \notin IdsOf(translated_json)
    /\ 2 \in IdsOf(translated_json)
    /\ FinalShapes[2].children[1].txBody[1].paras
         = RtlShapes[2].children[1].txBody[1].paras

\* the OpenAI path has handed to injection a record set with an id (99) that
\* no extracted record has
C24_OpenAIAdded ==
    /\ pc = "final" /\ translator = "openai"
    /\ 99 \in IdsOf(translated_json) /\ 99 \notin IdsOf(content_json)

-----------------------------------------------------------------------------
(* Claims about the round trip of the content records (SpecRoundTrip) *)

\* the text a paragraph shows: the a:t texts of its runs and fields, in
\* document order
ParagraphText(p) ==
    concat([i \in 1..Len(p.items) |-> IF p.items[i].hasT THEN p.items[i].t ELSE <<>>])

\* the sequence of paragraph texts of a shape
VisibleText(shape) ==
    IF shape.txBody = <<>> THEN <<>>
    ELSE [i \in 1..Len(shape.txBody[1].paras) |-> ParagraphText(shape.txBody[1].paras[i])]

\* a paragraph with text that is not blank, all of it in runs
PlainParagraph(p) ==
    /\ strip(ParagraphText(p)) # <<>>
    /\ \A i \in 1..Len(p.items) : p.items[i].tag = "r"

\* C28: extracting the records of a part and injecting them unchanged into the
\* same tree leaves the sequence of paragraph texts of every shape as it was,
\* empty paragraphs and field texts included.
C28_RoundTripKeepsVisibleText ==
    pc = "final" =>
        \A i \in 1..Len(find_all_sp(slide_xml[1].shapes)) :
            VisibleText(find_all_sp(final_xml[1].shapes)[i])
                = VisibleText(find_all_sp(slide_xml[1].shapes)[i])

\* what the code keeps of C28: the round trip keeps the paragraph texts of a
\* shape whose paragraphs all have non-blank text carried by runs only, and of
\* a shape no record is extracted for
C28_RoundTripKeepsPlainText ==
    pc = "final" =>
        \A i \in 1..Len(find_all_sp(slide_xml[1].shapes)) :
            LET before == find_all_sp(slide_xml[1].shapes)[i]
                after == find_all_sp(final_xml[1].shapes)[i]
            IN  (\/ translation_lookup(content_json, before.id) = <<>>
                 \/ /\ before.txBody # <<>>
                    /\ \A k \in 1..Len(before.txBody[1].paras) :
                           PlainParagraph(before.txBody[1].paras[k]))
                    => VisibleText(after) = VisibleText(before)

\* the round trip has been made on a shape of one paragraph "7" (field), "c",
\* "a" (runs): the paragraph reads "7ca" before and "7ca7" after
C28_FieldTextDuplicated ==
    /\ pc = "final"
    /\ VisibleText(slide_xml[1].shapes[1]) = << <<"7", "c", "a">> >>
    /\ VisibleText(final_xml[1].shapes[1]) = << <<"7", "c", "a", "7">> >>

\* the round trip has been made on a shape whose first paragraph is empty:
\* the shape has fewer paragraphs afterwards
C28_EmptyParagraphLost ==
    /\ pc = "final"
    /\ slide_xml[1].shapes[1].txBody # <<>>
    /\ Len(VisibleText(slide_xml[1].shapes[1])) = 3
    /\ VisibleText(slide_xml[1].shapes[1])[1] = <<>>
    /\ Len(VisibleText(final_xml[1].shapes[1])) = 1

-----------------------------------------------------------------------------
(* Claims about repeated translate_slides calls (SpecSession) *)

\* the geometry of a part: x and flipH of its top-level shapes
GeometryOf(doc) ==
    [i \in 1..Len(doc.shapes) |-> [x |-> doc.shapes[i].x, flipH |-> doc.shapes[i].flipH]]

\* the engine run n times on the part of the input archive, each time on the
\* result of the run before
RECURSIVE TransformedTimes(_, _)
TransformedTimes(part, n) ==
    IF n = 0 THEN extract_raw(part)
    ELSE transform(engine_init(extract_presentation_xml, TRUE),
                   TransformedTimes(part, n - 1))[1]

\* C27: after any sequence of translate_slides calls on one SlideTranslator,
\* repeated calls and duplicate slide indices included, every slide, master and
\* layout placed in the output archive has the geometry of the input part
\* transformed exactly once: not that of the input part, not that of two runs.
C27_TransformedExactlyOnce ==
    session.output # <<>> =>
        \A p \in session.output[1].replaced :
            /\ GeometryOf(session.output[1].parts[p]) = GeometryOf(TransformedTimes(p, 1))
            /\ GeometryOf(session.output[1].parts[p]) # GeometryOf(TransformedTimes(p, 0))
            /\ GeometryOf(session.output[1].parts[p]) # GeometryOf(TransformedTimes(p, 2))

\* the second call, with a duplicate slide index, has rebuilt the archive with
\* the master, the layout and slide 1 placed, the masters reused from call 1
C27_Witness ==
    /\ session.output # <<>>
    /\ session.calls = 2 /\ session.phase = "idle"
    /\ session.slide_indices = <<1, 1>>
    /\ session.output[1].replaced
         = {Part("slideMaster", 1), Part("slideLayout", 1), Part("slide", 1)}
    /\ session.output[1].parts[Part("slide", 1)].shapes[1].x = 7644000

-----------------------------------------------------------------------------
(* Claims about the pipelines of two parts (SpecParts) *)

\* the files of the part's pipeline run alone on a fresh work_dir
AloneFiles(part) == process_part(FreshWorkDir, part).files

\* the files a pipeline may write
FilesOfPart(part) == { work_file(part, sfx) : sfx \in Suffixes }

\* C26: in any interleaving of the steps of the pipelines of two different
\* parts, the files a finished pipeline has produced are those it produces when
\* it runs alone, no pipeline reads a file the other has written, no file is
\* written by both, and presentation.xml is only read.
C26_PipelinesIndependent ==
    \A i \in PipelineIds :
        /\ pipelines.pc[i] = "final" =>
              \A f \in FilesOfPart(pipelines.parts[i]) :
                  work_dir[f] = AloneFiles(pipelines.parts[i])[f]
        /\ \A r \in pipelines.read : \A w \in pipelines.written :
              (r[1] = i /\ w[2] = r[2]) => w[1] = i
        /\ \A w1 \in pipelines.written : \A w2 \in pipelines.written :
              w1[2] = w2[2] => w1[1] = w2[1]
        /\ \A w \in pipelines.written : w[2] # pres_xml_path
        /\ work_dir[pres_xml_path] = extract_presentation_xml

\* slides 1 and 2 have both finished, their steps having alternated
C26_Witness ==
    /\ pipelines.parts = <<Part("slide", 1), Part("slide", 2)>>
    /\ pipelines.pc = <<"final", "final">>
    /\ pipelines.log = <<1, 2, 2, 1, 1, 2, 1, 2, 2, 1>>
    /\ work_dir[work_file(Part("slide", 1), "_final.xml")] # <<>>
    /\ work_dir[work_file(Part("slide", 2), "_final.xml")] # <<>>

====
